---- MODULE Spec2Model ----
(***************************************************************************)
(* A model of the yasm state machine engine: the StateMachine trait and    *)
(* the definitions the define_state_machine! macro generates, the          *)
(* StateMachineInstance (current state, bounded history, transition,       *)
(* reset) and its CallbackRegistry (six registration surfaces and their    *)
(* dispatch).                                                              *)
(***************************************************************************)
EXTENDS Integers, Sequences, FiniteSets, TLC

(***************************************************************************)
(* Bounds of the model.                                                    *)
(***************************************************************************)
\* Successful transitions an instance makes between creation/reset and the
\* point where the model stops calling transition().
MaxTransitions == 3
\* Largest argument given to with_max_history().
MaxHistoryArg == 2
\* Callbacks registered on one instance at a time, on any surface and key.
MaxCallbacks == 1
\* In the dispatch specification: callbacks registered on each of the six
\* surfaces, and successful transitions between creation/reset and the point
\* where the model stops calling transition().
MaxPerSurface == 1
MaxDispatchTransitions == 1

(***************************************************************************)
(* Option<T>: None is the empty sequence, Some(x) the one-element one.     *)
(***************************************************************************)
None == <<>>
Some(x) == <<x>>

\* Vec::contains / slice::contains
Contains(seq, x) == \E i \in 1..Len(seq) : seq[i] = x

Range(seq) == {seq[i] : i \in 1..Len(seq)}

(***************************************************************************)
(* Machine declarations: the arguments of define_state_machine!.  A        *)
(* transition `from + inp => to` is the triple <<from, inp, to>>.          *)
(***************************************************************************)
DoorStateMachine ==
    [states |-> <<"Closed", "Open", "Locked">>,
     inputs |-> <<"OpenDoor", "CloseDoor", "Lock", "Unlock">>,
     initial |-> "Closed",
     transitions |-> << <<"Closed", "OpenDoor", "Open">>,
                        <<"Open", "CloseDoor", "Closed">>,
                        <<"Closed", "Lock", "Locked">>,
                        <<"Locked", "Unlock", "Closed">> >>]

TestMachine ==
    [states |-> <<"StateA", "StateB">>,
     inputs |-> <<"Action", "_HiddenAction", "_Debug">>,
     initial |-> "StateA",
     transitions |-> << <<"StateA", "Action", "StateB">>,
                        <<"StateB", "Action", "StateA">>,
                        <<"StateA", "_HiddenAction", "StateA">>,
                        <<"StateB", "_HiddenAction", "StateB">>,
                        <<"StateA", "_Debug", "StateA">>,
                        <<"StateB", "_Debug", "StateB">> >>]

OrderStateMachine ==
    [states |-> <<"Created", "Paid", "Shipped", "Delivered", "Cancelled">>,
     inputs |-> <<"Pay", "Ship", "Deliver", "Cancel", "Refund">>,
     initial |-> "Created",
     transitions |-> << <<"Created", "Pay", "Paid">>,
                        <<"Created", "Cancel", "Cancelled">>,
                        <<"Paid", "Ship", "Shipped">>,
                        <<"Paid", "Refund", "Cancelled">>,
                        <<"Shipped", "Deliver", "Delivered">>,
                        <<"Shipped", "Cancel", "Cancelled">> >>]

\* The machines declared in the repository, by name.
Declarations ==
    [DoorStateMachine |-> DoorStateMachine,
     TestMachine |-> TestMachine,
     OrderStateMachine |-> OrderStateMachine]

\* The declaration of the machine named "Table": any table of transitions
\* handed to define_state_machine!.
VARIABLE table

\* The declaration a generated machine was generated from.
Declared(SM) == IF SM = "Table" THEN table ELSE Declarations[SM]

(***************************************************************************)
(* __define_state_machine_common!: the StateMachine impl generated from a  *)
(* declaration.                                                            *)
(***************************************************************************)
\* states() that leaves out the last declared state
macro_states_without_last(decl) == SubSeq(decl.states, 1, Len(decl.states) - 1)

\* fn states() -> vec![$(State::$state),*]
macro_states(decl) == decl.states

\* fn inputs() -> vec![$(Input::$input),*]
macro_inputs(decl) == decl.inputs

\* fn initial_state() -> State::$initial
macro_initial_state(decl) == decl.initial

\* fn valid_inputs: one `if matches!(state, State::$from) { push($inp) }`
\* per declared transition, in declaration order.
macro_valid_inputs(decl, state) ==
    LET arms == SelectSeq(decl.transitions, LAMBDA t : t[1] = state)
    IN  [i \in 1..Len(arms) |-> arms[i][2]]

\* fn next_state taking the last arm that matches (state, input)
macro_next_state_last_arm(decl, state, input) ==
    LET arms == {i \in 1..Len(decl.transitions) :
                    /\ decl.transitions[i][1] = state
                    /\ decl.transitions[i][2] = input}
    IN  IF arms = {} THEN None
        ELSE Some(decl.transitions[CHOOSE i \in arms : \A j \in arms : i >= j][3])

\* fn next_state: a match with one arm per declared transition; the first
\* arm that matches (state, input) is taken, `_ => None` otherwise.
macro_next_state(decl, state, input) ==
    LET arms == {i \in 1..Len(decl.transitions) :
                    /\ decl.transitions[i][1] = state
                    /\ decl.transitions[i][2] = input}
    IN  IF arms = {} THEN None
        ELSE Some(decl.transitions[CHOOSE i \in arms : \A j \in arms : i <= j][3])

(***************************************************************************)
(* A hand-written impl of the StateMachine trait whose valid_inputs lists  *)
(* an input ("Stuck" in S0) for which next_state has no result: the trait  *)
(* does not tie the two methods together.                                  *)
(***************************************************************************)
GapMachine ==
    [states |-> <<"S0", "S1">>,
     inputs |-> <<"Go", "Stuck">>,
     initial |-> "S0",
     valid_inputs |-> [s \in {"S0", "S1"} |->
                          IF s = "S0" THEN <<"Go", "Stuck">> ELSE <<"Go">>],
     next_state |-> [p \in {"S0", "S1"} \X {"Go", "Stuck"} |->
                          IF p = <<"S0", "Go">> THEN Some("S1")
                          ELSE IF p = <<"S1", "Go">> THEN Some("S0")
                          ELSE None]]

\* The type parameter SM of an instance: a generated or a hand-written impl.
Machines == {"DoorStateMachine", "TestMachine", "GapMachine"}

IsGenerated(SM) == SM /= "GapMachine"

(***************************************************************************)
(* trait StateMachine, dispatched on SM.                                   *)
(***************************************************************************)
states(SM) ==
    IF IsGenerated(SM) THEN macro_states(Declared(SM)) ELSE GapMachine.states

inputs(SM) ==
    IF IsGenerated(SM) THEN macro_inputs(Declared(SM)) ELSE GapMachine.inputs

initial_state(SM) ==
    IF IsGenerated(SM) THEN macro_initial_state(Declared(SM))
    ELSE GapMachine.initial

valid_inputs(SM, state) ==
    IF IsGenerated(SM) THEN macro_valid_inputs(Declared(SM), state)
    ELSE GapMachine.valid_inputs[state]

next_state(SM, state, input) ==
    IF IsGenerated(SM) THEN macro_next_state(Declared(SM), state, input)
    ELSE GapMachine.next_state[<<state, input>>]

\* fn state_name / input_name: format!("{:?}", ..) of an enum value, which
\* the model represents by that name.
state_name(SM, state) == state
input_name(SM, input) == input

\* The values of the enums State and Input of SM.
StateOf(SM) == Range(states(SM))
InputOf(SM) == Range(inputs(SM))

(***************************************************************************)
(* CallbackRegistry.  A HashMap is a function whose domain is the set of   *)
(* keys present; a Vec of boxed callbacks is the sequence of the callbacks *)
(* pushed, each named by the caller.                                       *)
(***************************************************************************)
EmptyMap == [k \in {} |-> <<>>]

\* HashMap::get
MapGet(map, key) == IF key \in DOMAIN map THEN Some(map[key]) ELSE None

\* A registration that would put the callback before the earlier ones.
EntryOrDefaultPushFront(map, key, callback) ==
    [k \in DOMAIN map \cup {key} |->
        IF k = key
        THEN <<callback>> \o (IF key \in DOMAIN map THEN map[key] ELSE <<>>)
        ELSE map[k]]

\* map.entry(key).or_default().push(callback)
EntryOrDefaultPush(map, key, callback) ==
    IF key \in DOMAIN map
    THEN [map EXCEPT ![key] = Append(@, callback)]
    ELSE map @@ (key :> <<callback>>)

\* CallbackRegistry::new
NewRegistry ==
    [state_entry_callbacks |-> EmptyMap,
     state_exit_callbacks |-> EmptyMap,
     transition_callbacks |-> EmptyMap,
     global_entry_callbacks |-> <<>>,
     global_exit_callbacks |-> <<>>,
     global_transition_callbacks |-> <<>>]

registry_on_state_entry(reg, state, callback) ==
    [reg EXCEPT !.state_entry_callbacks = EntryOrDefaultPush(@, state, callback)]

registry_on_state_exit(reg, state, callback) ==
    [reg EXCEPT !.state_exit_callbacks = EntryOrDefaultPush(@, state, callback)]

registry_on_transition(reg, from_state, input, callback) ==
    [reg EXCEPT !.transition_callbacks =
                    EntryOrDefaultPush(@, <<from_state, input>>, callback)]

registry_on_any_state_entry(reg, callback) ==
    [reg EXCEPT !.global_entry_callbacks = Append(@, callback)]

registry_on_any_state_exit(reg, callback) ==
    [reg EXCEPT !.global_exit_callbacks = Append(@, callback)]

registry_on_any_transition(reg, callback) ==
    [reg EXCEPT !.global_transition_callbacks = Append(@, callback)]

\* One invocation `callback(args)`: which callback of which surface and key
\* was called, and with what arguments.
Invoke(scope, key, callbacks, args) ==
    [i \in 1..Len(callbacks) |->
        [scope |-> scope, key |-> key, callback |-> callbacks[i], args |-> args]]

\* `if let Some(callbacks) = map.get(key) { for callback in callbacks {..} }`
InvokeKeyed(scope, map, key, args) ==
    LET found == MapGet(map, key)
    IN  IF found = None THEN <<>> ELSE Invoke(scope, key, found[1], args)

\* trigger_state_exit running the state-specific callbacks before the global ones
trigger_state_exit_keyed_first(reg, state) ==
    InvokeKeyed("state_exit", reg.state_exit_callbacks, state, <<state>>)
    \o Invoke("any_state_exit", <<>>, reg.global_exit_callbacks, <<state>>)

\* The invocations made, in order.
trigger_state_entry(reg, state) ==
    Invoke("any_state_entry", <<>>, reg.global_entry_callbacks, <<state>>)
    \o InvokeKeyed("state_entry", reg.state_entry_callbacks, state, <<state>>)

trigger_state_exit(reg, state) ==
    Invoke("any_state_exit", <<>>, reg.global_exit_callbacks, <<state>>)
    \o InvokeKeyed("state_exit", reg.state_exit_callbacks, state, <<state>>)

\* trigger_transition looking its keyed callbacks up under the state reached
trigger_transition_by_target(reg, from_state, input, to_state) ==
    Invoke("any_transition", <<>>, reg.global_transition_callbacks,
           <<from_state, input, to_state>>)
    \o InvokeKeyed("transition", reg.transition_callbacks,
                   <<to_state, input>>, <<from_state, input, to_state>>)

trigger_transition(reg, from_state, input, to_state) ==
    Invoke("any_transition", <<>>, reg.global_transition_callbacks,
           <<from_state, input, to_state>>)
    \o InvokeKeyed("transition", reg.transition_callbacks,
                   <<from_state, input>>, <<from_state, input, to_state>>)

\* A clear that would leave the three global lists as they are
registry_clear_keyed_only(reg) ==
    [reg EXCEPT !.state_entry_callbacks = EmptyMap,
                !.state_exit_callbacks = EmptyMap,
                !.transition_callbacks = EmptyMap]

registry_clear(reg) ==
    [reg EXCEPT !.state_entry_callbacks = EmptyMap,
                !.state_exit_callbacks = EmptyMap,
                !.transition_callbacks = EmptyMap,
                !.global_entry_callbacks = <<>>,
                !.global_exit_callbacks = <<>>,
                !.global_transition_callbacks = <<>>]

RECURSIVE SumLen(_, _)
\* map.values().map(|v| v.len()).sum()
SumLen(map, keys) ==
    IF keys = {} THEN 0
    ELSE LET k == CHOOSE k \in keys : TRUE
         IN  Len(map[k]) + SumLen(map, keys \ {k})

\* A callback_count that would count the keys of the keyed surfaces.
callback_count_by_key(reg) ==
    Cardinality(DOMAIN reg.state_entry_callbacks)
    + Cardinality(DOMAIN reg.state_exit_callbacks)
    + Cardinality(DOMAIN reg.transition_callbacks)
    + Len(reg.global_entry_callbacks)
    + Len(reg.global_exit_callbacks)
    + Len(reg.global_transition_callbacks)

\* CallbackRegistry::callback_count
callback_count(reg) ==
    SumLen(reg.state_entry_callbacks, DOMAIN reg.state_entry_callbacks)
    + SumLen(reg.state_exit_callbacks, DOMAIN reg.state_exit_callbacks)
    + SumLen(reg.transition_callbacks, DOMAIN reg.transition_callbacks)
    + Len(reg.global_entry_callbacks)
    + Len(reg.global_exit_callbacks)
    + Len(reg.global_transition_callbacks)

(***************************************************************************)
(* StateMachineQuery<SM>.  A HashSet is a set; collecting it into a Vec    *)
(* gives its elements once each, in an order the hasher decides.           *)
(***************************************************************************)
\* HashSet::into_iter().collect(): the Vecs the set can be collected into.
into_iter_collect(set) ==
    {vec \in [1..Cardinality(set) -> set] :
        \A i, j \in 1..Cardinality(set) : vec[i] = vec[j] => i = j}

\* Vec::reverse
reverse(vec) == [i \in 1..Len(vec) |-> vec[Len(vec) + 1 - i]]

\* The Some(next_state) results for the valid inputs of a state, in order.
NextStates(SM, state) ==
    LET ins == valid_inputs(SM, state)
        nexts == [i \in 1..Len(ins) |-> next_state(SM, state, ins[i])]
        found == SelectSeq(nexts, LAMBDA n : n /= None)
    IN  [i \in 1..Len(found) |-> found[i][1]]

\* A states_leading_to without the `break`: a state is pushed once for each
\* of its valid inputs that leads to the target.
RECURSIVE states_leading_to_unbroken_from(_, _, _)
states_leading_to_unbroken_from(SM, target, i) ==
    IF i > Len(states(SM)) THEN <<>>
    ELSE SelectSeq([k \in 1..Len(NextStates(SM, states(SM)[i])) |->
                       IF NextStates(SM, states(SM)[i])[k] = target
                       THEN Some(states(SM)[i]) ELSE None],
                   LAMBDA n : n /= None)
         \o states_leading_to_unbroken_from(SM, target, i + 1)

states_leading_to_unbroken(SM, target) ==
    LET pushed == states_leading_to_unbroken_from(SM, target, 1)
    IN  [k \in 1..Len(pushed) |-> pushed[k][1]]

\* states_leading_to: the declared states, in order, one of whose valid
\* inputs has the target as next state (pushed once, then `break`).
states_leading_to(SM, target) ==
    SelectSeq(states(SM), LAMBDA state : Contains(NextStates(SM, state), target))

\* An iteration that would leave a state it has reached already on to_visit.
reachable_step_peeking(SM, reachable, to_visit) ==
    LET current == to_visit[Len(to_visit)]
        popped == SubSeq(to_visit, 1, Len(to_visit) - 1)
    IN  IF current \in reachable
        THEN [reachable |-> reachable, to_visit |-> to_visit, expanded |-> <<>>]
        ELSE LET inserted == reachable \cup {current}
                 pushed == SelectSeq(NextStates(SM, current),
                                     LAMBDA n : n \notin inserted)
             IN  [reachable |-> inserted, to_visit |-> popped \o pushed,
                  expanded |-> <<current>>]

\* An iteration that would stop at the first valid input that has a next state
reachable_step_first_input(SM, reachable, to_visit) ==
    LET current == to_visit[Len(to_visit)]
        popped == SubSeq(to_visit, 1, Len(to_visit) - 1)
    IN  IF current \in reachable
        THEN [reachable |-> reachable, to_visit |-> popped, expanded |-> <<>>]
        ELSE LET inserted == reachable \cup {current}
                 nexts == NextStates(SM, current)
                 pushed == IF nexts = <<>> \/ nexts[1] \in inserted
                           THEN <<>> ELSE <<nexts[1]>>
             IN  [reachable |-> inserted, to_visit |-> popped \o pushed,
                  expanded |-> <<current>>]

\* One iteration of the loop of reachable_states, for a non-empty to_visit:
\* the two locals after it, and the state whose inputs it went through.
reachable_step(SM, reachable, to_visit) ==
    LET current == to_visit[Len(to_visit)]
        popped == SubSeq(to_visit, 1, Len(to_visit) - 1)
    IN  IF current \in reachable
        THEN [reachable |-> reachable, to_visit |-> popped, expanded |-> <<>>]
        ELSE LET inserted == reachable \cup {current}
                 pushed == SelectSeq(NextStates(SM, current),
                                     LAMBDA n : n \notin inserted)
             IN  [reachable |-> inserted, to_visit |-> popped \o pushed,
                  expanded |-> <<current>>]

\* A search that would stop after the states one transition away.
reachable_loop_single_pass(SM, reachable, to_visit) ==
    Range(to_visit) \cup UNION {Range(NextStates(SM, s)) : s \in Range(to_visit)}

\* The `while let Some(current) = to_visit.pop()` loop of reachable_states.
RECURSIVE reachable_loop(_, _, _)
reachable_loop(SM, reachable, to_visit) ==
    IF to_visit = <<>> THEN reachable
    ELSE LET after == reachable_step(SM, reachable, to_visit)
         IN  reachable_loop(SM, after.reachable, after.to_visit)

\* A reachable_states that would start from the states one transition away
reachable_states_without_start(SM, from) ==
    into_iter_collect(reachable_loop(SM, {}, NextStates(SM, from)))

\* reachable_states: the Vecs the call can return.
reachable_states(SM, from) ==
    into_iter_collect(reachable_loop(SM, {}, <<from>>))

\* A has_path that would look one transition ahead only.
has_path_by_one_edge(SM, from, to) == Contains(NextStates(SM, from), to)

\* has_path: Self::reachable_states(from).contains(to)
has_path(SM, from, to) ==
    \E vec \in reachable_states(SM, from) : Contains(vec, to)

\* A terminal_states that would take a state none of whose transitions
\* leaves it for terminal.
terminal_states_without_exit(SM) ==
    SelectSeq(states(SM),
              LAMBDA state : Range(NextStates(SM, state)) \subseteq {state})

\* terminal_states: the declared states without valid input, in order.
terminal_states(SM) ==
    SelectSeq(states(SM), LAMBDA state : valid_inputs(SM, state) = <<>>)

\* is_strongly_connected without the comparison of reachable_from_first.len()
\* with states.len()
is_strongly_connected_to_first(SM) ==
    IF states(SM) = <<>> THEN TRUE
    ELSE \A i \in 2..Len(states(SM)) :
             has_path(SM, states(SM)[i], states(SM)[1])

\* An is_strongly_connected without the loop over states[1..].
is_strongly_connected_from_first(SM) ==
    IF states(SM) = <<>> THEN TRUE
    ELSE \A reachable_from_first \in reachable_states(SM, states(SM)[1]) :
             Len(reachable_from_first) = Len(states(SM))

\* is_strongly_connected
is_strongly_connected(SM) ==
    IF states(SM) = <<>> THEN TRUE
    ELSE IF \E reachable_from_first \in reachable_states(SM, states(SM)[1]) :
                Len(reachable_from_first) /= Len(states(SM))
         THEN FALSE
         ELSE \A i \in 2..Len(states(SM)) :
                  has_path(SM, states(SM)[i], states(SM)[1])

\* A reconstruction that would take one step back (`if let` for `while let`)
reconstruct_one_step(parent, path) ==
    LET at == path[Len(path)]
    IN  IF at \in DOMAIN parent THEN Append(path, parent[at]) ELSE path

\* The `while let Some(prev_state) = parent.get(&current_state)` loop:
\* the path from `to` back to the state that has no parent.
RECURSIVE reconstruct(_, _)
reconstruct(parent, path) ==
    LET at == path[Len(path)]
    IN  IF at \in DOMAIN parent
        THEN reconstruct(parent, Append(path, parent[at]))
        ELSE path

\* HashMap::insert
MapInsert(map, key, value) ==
    [k \in DOMAIN map \cup {key} |-> IF k = key THEN value ELSE map[k]]

\* A loop that would stop at the first state it discovers.
bfs_for_one_discovery(to, current, nexts, search) ==
    LET fresh == SelectSeq(nexts, LAMBDA n : n \notin search.visited)
    IN  IF fresh = <<>> THEN [returned |-> FALSE, search |-> search]
        ELSE LET discovered ==
                     [queue |-> Append(search.queue, Head(fresh)),
                      visited |-> search.visited \cup {Head(fresh)},
                      parent |-> MapInsert(search.parent, Head(fresh), current)]
             IN  IF Head(fresh) = to
                 THEN [returned |-> TRUE,
                       path |-> reverse(reconstruct(discovered.parent, <<to>>))]
                 ELSE [returned |-> FALSE, search |-> discovered]

\* The `for input in SM::valid_inputs(&current)` loop of shortest_path over
\* the remaining next states: it returns a path, or runs to its end.
RECURSIVE bfs_for(_, _, _, _)
bfs_for(to, current, nexts, search) ==
    IF nexts = <<>> THEN [returned |-> FALSE, search |-> search]
    ELSE IF Head(nexts) \in search.visited
    THEN bfs_for(to, current, Tail(nexts), search)
    ELSE LET discovered ==
                 [queue |-> Append(search.queue, Head(nexts)),
                  visited |-> search.visited \cup {Head(nexts)},
                  parent |-> MapInsert(search.parent, Head(nexts), current)]
         IN  IF Head(nexts) = to
             THEN [returned |-> TRUE,
                   path |-> reverse(reconstruct(discovered.parent, <<to>>))]
             ELSE bfs_for(to, current, Tail(nexts), discovered)

\* A search that would pop the queue once (`if let` for `while let`)
bfs_while_once(SM, to, search) ==
    IF search.queue = <<>> THEN None
    ELSE LET current == Head(search.queue)
             out == bfs_for(to, current, NextStates(SM, current),
                            [search EXCEPT !.queue = Tail(@)])
         IN  IF out.returned THEN Some(out.path) ELSE None

\* The `while let Some(current) = queue.pop_front()` loop of shortest_path.
RECURSIVE bfs_while(_, _, _)
bfs_while(SM, to, search) ==
    IF search.queue = <<>> THEN None
    ELSE LET current == Head(search.queue)
             out == bfs_for(to, current, NextStates(SM, current),
                            [search EXCEPT !.queue = Tail(@)])
         IN  IF out.returned THEN Some(out.path)
             ELSE bfs_while(SM, to, out.search)

\* A shortest_path without the `from == to` return.
shortest_path_searching(SM, from, to) ==
    bfs_while(SM, to, [queue |-> <<from>>, visited |-> {from},
                       parent |-> EmptyMap])

\* shortest_path
shortest_path(SM, from, to) ==
    IF from = to THEN Some(<<from>>)
    ELSE bfs_while(SM, to, [queue |-> <<from>>, visited |-> {from},
                            parent |-> EmptyMap])

(***************************************************************************)
(* StateMachineDoc<SM>.  A String is the sequence of the pieces pushed to  *)
(* it; a HashMap is iterated in an order the hasher decides.               *)
(***************************************************************************)
\* str::starts_with(char)
starts_with(string, char) == Len(string) > 0 /\ Head(string) = char

\* A should_include_input that would include every input.
should_include_input_always(SM, input) == TRUE

\* fn should_include_input
should_include_input(SM, input) == ~starts_with(input_name(SM, input), "_")

RECURSIVE Flatten(_)
Flatten(seqs) == IF seqs = <<>> THEN <<>> ELSE Head(seqs) \o Flatten(Tail(seqs))

\* The (state, input, next_state) triples the two nested loops of the
\* renderer get past `continue` and `if let Some(next_state)`, in order.
DocTransitions(SM) ==
    Flatten([i \in 1..Len(states(SM)) |->
        LET state == states(SM)[i]
            shown == SelectSeq(valid_inputs(SM, state),
                               LAMBDA input : should_include_input(SM, input))
            found == SelectSeq(shown,
                               LAMBDA input : next_state(SM, state, input) /= None)
        IN  [k \in 1..Len(found) |->
                <<state, found[k], next_state(SM, state, found[k])[1]>>]])

\* [String].join(separator)
RECURSIVE Join(_, _)
Join(strings, separator) ==
    IF strings = <<>> THEN <<>>
    ELSE IF Len(strings) = 1 THEN strings
    ELSE <<Head(strings), separator>> \o Join(Tail(strings), separator)

\* format!("    {} --> {} : {}\n", from, to, label)
MermaidLine(SM, from, to, label) ==
    <<"    ", state_name(SM, from), " --> ", state_name(SM, to), " : ">>
    \o label \o <<"\n">>

\* The inputs pushed under one key of normal_transitions or self_loops, by
\* name.
InputsOf(SM, found, from, to) ==
    LET pushed == SelectSeq(found, LAMBDA t : t[1] = from /\ t[3] = to)
    IN  [k \in 1..Len(pushed) |-> input_name(SM, pushed[k][2])]

\* Self-loop lines that would be merged for fewer than two inputs only
SelfLoopLines_below_two(SM, found, state) ==
    LET labels == InputsOf(SM, found, state, state)
    IN  IF Len(labels) < 2
        THEN MermaidLine(SM, state, state, Join(labels, " / "))
        ELSE Flatten([k \in 1..Len(labels) |->
                         MermaidLine(SM, state, state, <<labels[k]>>)])

\* The lines written for one self-looping state: one line for up to two
\* inputs, one line per input for more.
SelfLoopLines(SM, found, state) ==
    LET labels == InputsOf(SM, found, state, state)
    IN  IF Len(labels) <= 2
        THEN MermaidLine(SM, state, state, Join(labels, " / "))
        ELSE Flatten([k \in 1..Len(labels) |->
                         MermaidLine(SM, state, state, <<labels[k]>>)])

\* generate_mermaid: the Strings the call can return.
generate_mermaid(SM) ==
    LET found == DocTransitions(SM)
        normal_transitions ==
            {<<found[k][1], found[k][3]>> :
                k \in {i \in DOMAIN found : found[i][1] /= found[i][3]}}
        self_loops ==
            {found[k][1] : k \in {i \in DOMAIN found : found[i][1] = found[i][3]}}
        head == <<"stateDiagram-v2\n",
                  "    [*] --> ", state_name(SM, initial_state(SM)), "\n">>
        line == [pair \in normal_transitions |->
                    MermaidLine(SM, pair[1], pair[2],
                                Join(InputsOf(SM, found, pair[1], pair[2]), " / "))]
        loop == [state \in self_loops |-> SelfLoopLines(SM, found, state)]
    IN  {head \o Flatten([k \in 1..Len(pairs) |-> line[pairs[k]]])
              \o Flatten([k \in 1..Len(loops) |-> loop[loops[k]]]) :
             pairs \in into_iter_collect(normal_transitions),
             loops \in into_iter_collect(self_loops)}

\* generate_transition_table
generate_transition_table(SM) ==
    LET found == DocTransitions(SM)
    IN  <<"# State Transition Table\n\n",
          "| Current State | Input | Next State |\n",
          "|---------------|-------|------------|\n">>
        \o Flatten([k \in 1..Len(found) |->
               <<"| ", state_name(SM, found[k][1]),
                 " | ", input_name(SM, found[k][2]),
                 " | ", state_name(SM, found[k][3]), " |\n">>])

(***************************************************************************)
(* StateMachineInstance<SM>.                                               *)
(***************************************************************************)
DEFAULT_MAX_HISTORY_SIZE == 512

VARIABLES
    SM,                 \* the machine the instance is an instance of
    current_state,      \* self.current_state
    history,            \* self.history, oldest record first
    max_history_size,   \* self.max_history_size
    callback_registry,  \* self.callback_registry
    call,               \* the last call made on the instance, and the instance before it
    result,             \* what that call returned
    fired,              \* the callbacks that call invoked, in order
    trace,              \* the successful transitions since creation or the last reset
    twin,               \* a second instance, created like the first
    twin_result,        \* what the twin's last transition or reset returned
    search              \* the locals of a query that has not returned yet

vars == <<SM, table, current_state, history, max_history_size, callback_registry,
          call, result, fired, trace, twin, twin_result, search>>

\* No query is running.
NoSearch == [op |-> "none"]

Self ==
    [current_state |-> current_state,
     history |-> history,
     max_history_size |-> max_history_size,
     callback_registry |-> callback_registry]

\* StateMachineInstance::new
new(sm) ==
    [current_state |-> initial_state(sm),
     history |-> <<>>,
     max_history_size |-> DEFAULT_MAX_HISTORY_SIZE,
     callback_registry |-> NewRegistry]

\* A with_max_history that would keep the default size.
with_max_history_ignored(sm, max_size) ==
    [current_state |-> initial_state(sm),
     history |-> <<>>,
     max_history_size |-> DEFAULT_MAX_HISTORY_SIZE,
     callback_registry |-> NewRegistry]

\* StateMachineInstance::with_max_history
with_max_history(sm, max_size) ==
    [current_state |-> initial_state(sm),
     history |-> <<>>,
     max_history_size |-> max_size,
     callback_registry |-> NewRegistry]

\* Return values: Result<State, String>, the unit of the other methods, and
\* the panic of an unwrap() on None, which unwinds out of the call.
Ok(value) == [kind |-> "Ok", value |-> value]
Err(message) == [kind |-> "Err", message |-> message]
Unit == [kind |-> "Unit"]
Panicked == [kind |-> "Panic"]

\* format!("Invalid input {:?} for state {:?}", input, self.current_state)
InvalidInputMessage(input, state) ==
    <<"Invalid input ", input, " for state ", state>>

\* The None arm reusing the message of the invalid-input arm
NoTransitionMessage_as_invalid(state, input) == InvalidInputMessage(input, state)

\* format!("No valid transition from state {:?} with input {:?}", ..)
NoTransitionMessage(state, input) ==
    <<"No valid transition from state ", state, " with input ", input>>

\* can_accept without the membership test
can_accept_unchecked(sm, self, input) == TRUE

\* StateMachineInstance::can_accept
can_accept(sm, self, input) ==
    Contains(valid_inputs(sm, self.current_state), input)

\* A valid_inputs() that would answer for the initial state.
instance_valid_inputs_of_initial(sm, self) == valid_inputs(sm, initial_state(sm))

\* StateMachineInstance::valid_inputs
instance_valid_inputs(sm, self) == valid_inputs(sm, self.current_state)

\* The instance as a callback invoked at this point of transition() would
\* find it.
Observed(events, state, hist) ==
    [i \in 1..Len(events) |->
        [scope |-> events[i].scope, key |-> events[i].key,
         callback |-> events[i].callback, args |-> events[i].args,
         current_state |-> state, history |-> hist]]

\* The exit dispatch without its guard
exit_condition_always(old_state, new_state) == TRUE

\* `if old_state != new_state` guarding trigger_state_exit
exit_condition(old_state, new_state) == old_state /= new_state

\* Eviction that drops the newest record (pop_back) instead of the oldest
record_history_pop_back(hist, record, max_size) ==
    LET pushed == Append(hist, record)
    IN  IF Len(pushed) > max_size THEN SubSeq(pushed, 1, Len(pushed) - 1) ELSE pushed

\* self.history.push_back(record); if len > max_history_size { pop_front() }
record_history(hist, record, max_size) ==
    LET pushed == Append(hist, record)
    IN  IF Len(pushed) > max_size THEN Tail(pushed) ELSE pushed

\* self.history.back(): Option<&(State, Input)>
back(hist) == IF hist = <<>> THEN None ELSE Some(hist[Len(hist)])

\* transition() that records the transition and sets the current state
\* before it dispatches the exit and the transition callbacks
transition_updating_first(sm, self, input) ==
    IF ~can_accept(sm, self, input)
    THEN [self |-> self,
          result |-> Err(InvalidInputMessage(input, self.current_state)),
          fired |-> <<>>]
    ELSE
    LET next == next_state(sm, self.current_state, input) IN
    IF next = None
    THEN [self |-> self,
          result |-> Err(NoTransitionMessage(self.current_state, input)),
          fired |-> <<>>]
    ELSE
    LET new_state == next[1]
        old_state == self.current_state
        reg == self.callback_registry
        recorded == record_history(self.history, <<old_state, input>>,
                                   self.max_history_size)
        after == [self EXCEPT !.history = recorded, !.current_state = new_state]
        exits == IF exit_condition(old_state, new_state)
                 THEN Observed(trigger_state_exit(reg, old_state),
                               after.current_state, after.history)
                 ELSE <<>>
        transitions == Observed(trigger_transition(reg, old_state, input, new_state),
                                after.current_state, after.history)
        newest == back(after.history)
    IN  IF newest = None
        THEN [self |-> after, result |-> Panicked, fired |-> exits \o transitions]
        ELSE
        LET entries == IF after.current_state /= newest[1][1]
                       THEN Observed(trigger_state_entry(reg, new_state),
                                     after.current_state, after.history)
                       ELSE <<>>
        IN  [self |-> after, result |-> Ok(new_state),
             fired |-> exits \o transitions \o entries]

\* StateMachineInstance::transition: the instance after the call, the value
\* returned and the callbacks invoked.
transition(sm, self, input) ==
    IF ~can_accept(sm, self, input)
    THEN [self |-> self,
          result |-> Err(InvalidInputMessage(input, self.current_state)),
          fired |-> <<>>]
    ELSE
    LET next == next_state(sm, self.current_state, input) IN
    IF next = None
    THEN [self |-> self,
          result |-> Err(NoTransitionMessage(self.current_state, input)),
          fired |-> <<>>]
    ELSE
    LET new_state == next[1]
        old_state == self.current_state
        reg == self.callback_registry
        exits == IF exit_condition(old_state, new_state)
                 THEN Observed(trigger_state_exit(reg, old_state),
                               self.current_state, self.history)
                 ELSE <<>>
        transitions == Observed(trigger_transition(reg, old_state, input, new_state),
                                self.current_state, self.history)
        recorded == record_history(self.history, <<old_state, input>>,
                                   self.max_history_size)
        after == [self EXCEPT !.history = recorded, !.current_state = new_state]
        newest == back(after.history)
    IN  IF newest = None
        THEN \* unwrap() on None panics: the call unwinds here
             [self |-> after, result |-> Panicked, fired |-> exits \o transitions]
        ELSE
        LET entries == IF after.current_state /= newest[1][1]
                       THEN Observed(trigger_state_entry(reg, new_state),
                                     after.current_state, after.history)
                       ELSE <<>>
        IN  [self |-> after, result |-> Ok(new_state),
             fired |-> exits \o transitions \o entries]

\* reset() that leaves the history as it is
reset_keeping_history(sm, self) ==
    [self EXCEPT !.current_state = initial_state(sm)]

\* reset() that also empties the callback registry
reset_clearing_callbacks(sm, self) ==
    [self EXCEPT !.current_state = initial_state(sm), !.history = <<>>,
                 !.callback_registry = registry_clear(@)]

\* StateMachineInstance::reset
reset(sm, self) ==
    [self EXCEPT !.current_state = initial_state(sm), !.history = <<>>]

\* StateMachineInstance::on_state_entry .. clear_callbacks delegate to the registry
on_state_entry(self, state, callback) ==
    [self EXCEPT !.callback_registry = registry_on_state_entry(@, state, callback)]

on_state_exit(self, state, callback) ==
    [self EXCEPT !.callback_registry = registry_on_state_exit(@, state, callback)]

on_transition(self, from_state, input, callback) ==
    [self EXCEPT !.callback_registry =
                     registry_on_transition(@, from_state, input, callback)]

on_any_state_entry(self, callback) ==
    [self EXCEPT !.callback_registry = registry_on_any_state_entry(@, callback)]

on_any_state_exit(self, callback) ==
    [self EXCEPT !.callback_registry = registry_on_any_state_exit(@, callback)]

on_any_transition(self, callback) ==
    [self EXCEPT !.callback_registry = registry_on_any_transition(@, callback)]

\* A clear_callbacks that would also forget the history.
clear_callbacks_and_history(self) ==
    [self EXCEPT !.callback_registry = registry_clear(@), !.history = <<>>]

clear_callbacks(self) ==
    [self EXCEPT !.callback_registry = registry_clear(@)]

(***************************************************************************)
(* The state machine of one instance and its owner.                       *)
(***************************************************************************)
\* A panic unwinds the owner's thread: no further call is made.
Faulted == result.kind = "Panic"

Creation(sm, op, args, instance) ==
    /\ SM = sm
    /\ current_state = instance.current_state
    /\ history = instance.history
    /\ max_history_size = instance.max_history_size
    /\ callback_registry = instance.callback_registry
    /\ call = [op |-> op, args |-> args, before |-> instance]
    /\ result = Unit
    /\ fired = <<>>
    /\ trace = <<>>
    /\ twin = instance
    /\ twin_result = Unit
    /\ search = NoSearch

\* No table is declared for the machines of the repository.
NoTable == [states |-> <<>>, inputs |-> <<>>, transitions |-> <<>>]

Init ==
    \E sm \in Machines :
      /\ table = NoTable
      /\
        \/ Creation(sm, "new", <<>>, new(sm))
        \/ \E n \in 0..MaxHistoryArg :
               Creation(sm, "with_max_history", <<n>>, with_max_history(sm, n))

\* The instance, the return value and the invocations a call leaves behind.
Returns(op, args, after, value, invoked) ==
    /\ current_state' = after.current_state
    /\ history' = after.history
    /\ max_history_size' = after.max_history_size
    /\ callback_registry' = after.callback_registry
    /\ call' = [op |-> op, args |-> args, before |-> Self]
    /\ result' = value
    /\ fired' = invoked
    /\ search' = NoSearch
    /\ UNCHANGED <<SM, table>>

Transition(input) ==
    /\ ~Faulted
    /\ LET out == transition(SM, Self, input)
       IN  /\ Returns("transition", <<input>>, out.self, out.result, out.fired)
           /\ trace' = IF out.result.kind = "Ok"
                       THEN Append(trace, <<current_state, input>>)
                       ELSE trace
    /\ LET out == transition(SM, twin, input)
       IN  twin' = out.self /\ twin_result' = out.result

\* A reset() that would dispatch the entry callbacks of the initial state
\* when the state changes
Reset_dispatching_entry ==
    /\ ~Faulted
    /\ Returns("reset", <<>>, reset(SM, Self), Unit,
               IF current_state /= initial_state(SM)
               THEN Observed(trigger_state_entry(callback_registry,
                                                 initial_state(SM)),
                             initial_state(SM), <<>>)
               ELSE <<>>)
    /\ trace' = <<>>
    /\ twin' = reset(SM, twin)
    /\ twin_result' = Unit

Reset ==
    /\ ~Faulted
    /\ Returns("reset", <<>>, reset(SM, Self), Unit, <<>>)
    /\ trace' = <<>>
    /\ twin' = reset(SM, twin)
    /\ twin_result' = Unit

\* A callback is named by its position among the callbacks registered under
\* the same surface and key.
NextCallback(found) == IF found = None THEN 1 ELSE Len(found[1]) + 1

OnStateEntry(state) ==
    /\ ~Faulted
    /\ LET cb == NextCallback(MapGet(callback_registry.state_entry_callbacks, state))
       IN  Returns("on_state_entry", <<state>>, on_state_entry(Self, state, cb),
                   Unit, <<>>)
    /\ UNCHANGED <<trace, twin, twin_result>>

OnStateExit(state) ==
    /\ ~Faulted
    /\ LET cb == NextCallback(MapGet(callback_registry.state_exit_callbacks, state))
       IN  Returns("on_state_exit", <<state>>, on_state_exit(Self, state, cb),
                   Unit, <<>>)
    /\ UNCHANGED <<trace, twin, twin_result>>

OnTransition(from_state, input) ==
    /\ ~Faulted
    /\ LET cb == NextCallback(MapGet(callback_registry.transition_callbacks,
                                     <<from_state, input>>))
       IN  Returns("on_transition", <<from_state, input>>,
                   on_transition(Self, from_state, input, cb), Unit, <<>>)
    /\ UNCHANGED <<trace, twin, twin_result>>

OnAnyStateEntry ==
    /\ ~Faulted
    /\ LET cb == NextCallback(Some(callback_registry.global_entry_callbacks))
       IN  Returns("on_any_state_entry", <<>>, on_any_state_entry(Self, cb),
                   Unit, <<>>)
    /\ UNCHANGED <<trace, twin, twin_result>>

OnAnyStateExit ==
    /\ ~Faulted
    /\ LET cb == NextCallback(Some(callback_registry.global_exit_callbacks))
       IN  Returns("on_any_state_exit", <<>>, on_any_state_exit(Self, cb),
                   Unit, <<>>)
    /\ UNCHANGED <<trace, twin, twin_result>>

OnAnyTransition ==
    /\ ~Faulted
    /\ LET cb == NextCallback(Some(callback_registry.global_transition_callbacks))
       IN  Returns("on_any_transition", <<>>, on_any_transition(Self, cb),
                   Unit, <<>>)
    /\ UNCHANGED <<trace, twin, twin_result>>

ClearCallbacks ==
    /\ ~Faulted
    /\ Returns("clear_callbacks", <<>>, clear_callbacks(Self), Unit, <<>>)
    /\ UNCHANGED <<trace, twin, twin_result>>

\* Every call the owner can make, on every key, while the instance holds
\* fewer than MaxCallbacks callbacks and has made fewer than MaxTransitions
\* transitions.
MayTransition == Len(trace) < MaxTransitions
MayRegister == callback_count(callback_registry) < MaxCallbacks

Next ==
    \/ \E input \in InputOf(SM) : MayTransition /\ Transition(input)
    \/ Reset
    \/ \E state \in StateOf(SM) : MayRegister /\ OnStateEntry(state)
    \/ \E state \in StateOf(SM) : MayRegister /\ OnStateExit(state)
    \/ \E state \in StateOf(SM), input \in InputOf(SM) :
           MayRegister /\ OnTransition(state, input)
    \/ MayRegister /\ OnAnyStateEntry
    \/ MayRegister /\ OnAnyStateExit
    \/ MayRegister /\ OnAnyTransition
    \/ ClearCallbacks

Spec == Init /\ [][Next]_vars

(***************************************************************************)
(* The dispatch specification: the same calls, with the keyed callbacks    *)
(* registered for the first transition the machine can make (its initial   *)
(* state, the first input valid there, the state that leads to), and up to *)
(* MaxPerSurface callbacks on each of the six surfaces, so that one        *)
(* transition dispatches on all six.                                       *)
(***************************************************************************)
WatchedFrom == initial_state(SM)
WatchedInput == valid_inputs(SM, WatchedFrom)[1]
WatchedTo == next_state(SM, WatchedFrom, WatchedInput)[1]

MayDispatchTransition == Len(trace) < MaxDispatchTransitions
Room(found) == IF found = None THEN TRUE ELSE Len(found[1]) < MaxPerSurface

NextDispatch ==
    \/ \E input \in InputOf(SM) : MayDispatchTransition /\ Transition(input)
    \/ Reset
    \/ /\ Room(MapGet(callback_registry.state_entry_callbacks, WatchedTo))
       /\ OnStateEntry(WatchedTo)
    \/ /\ Room(MapGet(callback_registry.state_exit_callbacks, WatchedFrom))
       /\ OnStateExit(WatchedFrom)
    \/ /\ Room(MapGet(callback_registry.transition_callbacks,
                      <<WatchedFrom, WatchedInput>>))
       /\ OnTransition(WatchedFrom, WatchedInput)
    \/ Room(Some(callback_registry.global_entry_callbacks)) /\ OnAnyStateEntry
    \/ Room(Some(callback_registry.global_exit_callbacks)) /\ OnAnyStateExit
    \/ Room(Some(callback_registry.global_transition_callbacks)) /\ OnAnyTransition
    \/ ClearCallbacks

SpecDispatch == Init /\ [][NextDispatch]_vars

(***************************************************************************)
(* The pair specification: the owner also registers callbacks on the twin  *)
(* and clears them, independently of the first instance; every transition  *)
(* and reset is made on both instances.                                    *)
(***************************************************************************)
\* Bounds of the pair specification.
MaxPairTransitions == 2
MaxTwinCallbacks == 1

\* A registration call on the twin: only the twin changes.
TwinCall(after) ==
    /\ ~Faulted
    /\ twin' = after
    /\ UNCHANGED <<SM, table, current_state, history, max_history_size,
                   callback_registry, call, result, fired, trace, twin_result,
                   search>>

TwinOnStateEntry(state) ==
    TwinCall(on_state_entry(twin, state,
        NextCallback(MapGet(twin.callback_registry.state_entry_callbacks, state))))

TwinOnStateExit(state) ==
    TwinCall(on_state_exit(twin, state,
        NextCallback(MapGet(twin.callback_registry.state_exit_callbacks, state))))

TwinOnTransition(from_state, input) ==
    TwinCall(on_transition(twin, from_state, input,
        NextCallback(MapGet(twin.callback_registry.transition_callbacks,
                            <<from_state, input>>))))

TwinOnAnyStateEntry ==
    TwinCall(on_any_state_entry(twin,
        NextCallback(Some(twin.callback_registry.global_entry_callbacks))))

TwinOnAnyStateExit ==
    TwinCall(on_any_state_exit(twin,
        NextCallback(Some(twin.callback_registry.global_exit_callbacks))))

TwinOnAnyTransition ==
    TwinCall(on_any_transition(twin,
        NextCallback(Some(twin.callback_registry.global_transition_callbacks))))

TwinClearCallbacks == TwinCall(clear_callbacks(twin))

MayPairTransition == Len(trace) < MaxPairTransitions
MayTwinRegister == callback_count(twin.callback_registry) < MaxTwinCallbacks

NextPair ==
    \/ \E input \in InputOf(SM) : MayPairTransition /\ Transition(input)
    \/ Reset
    \/ Room(Some(callback_registry.global_transition_callbacks)) /\ OnAnyTransition
    \/ ClearCallbacks
    \/ \E state \in StateOf(SM) : MayTwinRegister /\ TwinOnStateEntry(state)
    \/ \E state \in StateOf(SM) : MayTwinRegister /\ TwinOnStateExit(state)
    \/ \E from_state \in StateOf(SM), input \in InputOf(SM) :
           MayTwinRegister /\ TwinOnTransition(from_state, input)
    \/ MayTwinRegister /\ TwinOnAnyStateEntry
    \/ MayTwinRegister /\ TwinOnAnyStateExit
    \/ MayTwinRegister /\ TwinOnAnyTransition
    \/ TwinClearCallbacks

SpecPair == Init /\ [][NextPair]_vars

(***************************************************************************)
(* The query specification: the calls of StateMachineQuery<SM>, for the    *)
(* machines of the repository and for every machine define_state_machine!  *)
(* generates from a table of up to MaxTableTransitions transitions over    *)
(* three states and two inputs.  The queries are associated functions:     *)
(* they read the Definition and leave every instance alone.                *)
(***************************************************************************)
MaxTableTransitions == 3

TableStates == <<"X", "Y", "Z">>
\* The second input is a hidden one: its name begins with an underscore.
TableInputs == <<"a", "_b">>
\* Every transition a table can declare, in a fixed order.
TableTriples ==
    << <<"X", "a", "X">>, <<"X", "a", "Y">>, <<"X", "a", "Z">>,
       <<"X", "_b", "X">>, <<"X", "_b", "Y">>, <<"X", "_b", "Z">>,
       <<"Y", "a", "X">>, <<"Y", "a", "Y">>, <<"Y", "a", "Z">>,
       <<"Y", "_b", "X">>, <<"Y", "_b", "Y">>, <<"Y", "_b", "Z">>,
       <<"Z", "a", "X">>, <<"Z", "a", "Y">>, <<"Z", "a", "Z">>,
       <<"Z", "_b", "X">>, <<"Z", "_b", "Y">>, <<"Z", "_b", "Z">> >>

\* The table that declares the chosen transitions, in the fixed order or in
\* the opposite one.
Table(chosen, backwards) ==
    LET listed == SelectSeq(TableTriples, LAMBDA t : t \in chosen)
    IN  [states |-> TableStates,
         inputs |-> TableInputs,
         initial |-> TableStates[1],
         transitions |-> IF backwards THEN reverse(listed) ELSE listed]

QueryMachines == Machines \cup {"OrderStateMachine"}

\* An instance of a machine generated from a table.
InitTable ==
    \E chosen \in SUBSET Range(TableTriples), backwards \in BOOLEAN :
        /\ Cardinality(chosen) <= MaxTableTransitions
        /\ table = Table(chosen, backwards)
        /\ Creation("Table", "new", <<>>, new("Table"))

InitQuery ==
    \/ InitTable
    \/ \E sm \in QueryMachines :
           /\ table = NoTable
           /\ Creation(sm, "new", <<>>, new(sm))

\* A value returned by a call that cannot fail.
Returned(value) == [kind |-> "Value", value |-> value]

\* A query call: it returns a value and changes nothing.
Query(op, args, value) ==
    /\ Returns(op, args, Self, Returned(value), <<>>)
    /\ UNCHANGED <<trace, twin, twin_result>>

StatesLeadingTo(target) ==
    Query("states_leading_to", <<target>>, states_leading_to(SM, target))

ReachableStates(from) ==
    \E vec \in reachable_states(SM, from) :
        Query("reachable_states", <<from>>, vec)

HasPath(from, to) == Query("has_path", <<from, to>>, has_path(SM, from, to))

TerminalStates == Query("terminal_states", <<>>, terminal_states(SM))

IsStronglyConnected ==
    Query("is_strongly_connected", <<>>, is_strongly_connected(SM))

ShortestPath(from, to) ==
    Query("shortest_path", <<from, to>>, shortest_path(SM, from, to))

NextQuery ==
    \/ \E target \in StateOf(SM) : StatesLeadingTo(target)
    \/ \E from \in StateOf(SM) : ReachableStates(from)
    \/ \E from, to \in StateOf(SM) : HasPath(from, to)
    \/ TerminalStates
    \/ IsStronglyConnected
    \/ \E from, to \in StateOf(SM) : ShortestPath(from, to)

SpecQuery == InitQuery /\ [][NextQuery]_vars

(***************************************************************************)
(* Properties.  `call` holds the last call and the instance as it was      *)
(* before it, `result` and `fired` what the call returned and invoked.     *)
(***************************************************************************)
Before == call.before
IsTransitionCall == call.op = "transition"
CallInput == call.args[1]

IsInvalidInput(r) == r.kind = "Err" /\ r.message[1] = "Invalid input "
IsNoTransition(r) ==
    r.kind = "Err" /\ r.message[1] = "No valid transition from state "

\* The input of the last call was declared valid for the state it was made in.
WasValid == Contains(valid_inputs(SM, Before.current_state), CallInput)
\* What the Definition's next-state function gives for the last call.
WasNext == next_state(SM, Before.current_state, CallInput)

Min(a, b) == IF a <= b THEN a ELSE b
LastN(seq, n) == SubSeq(seq, Len(seq) - n + 1, Len(seq))

\* The callbacks registered under a key of a keyed surface.
Registered(map, key) == IF key \in DOMAIN map THEN map[key] ELSE <<>>
\* Callbacks of one surface and key, as <<surface, key, callback, arguments>>.
Named(scope, key, callbacks, args) ==
    [i \in 1..Len(callbacks) |-> <<scope, key, callbacks[i], args>>]
\* The invocations of the last call, in the same form.
Invoked ==
    [i \in 1..Len(fired) |->
        <<fired[i].scope, fired[i].key, fired[i].callback, fired[i].args>>]
ScopesFired == {fired[i].scope : i \in 1..Len(fired)}

\* C1: a transition on an input that is not valid for the current state
\* returns InvalidInput (naming the input and the state), leaves the current
\* state and the history as they were and invokes no callback.
C1_InvalidInputRejected ==
    (IsTransitionCall /\ ~WasValid) =>
        /\ IsInvalidInput(result)
        /\ result.message[2] = CallInput
        /\ result.message[4] = Before.current_state
        /\ current_state = Before.current_state
        /\ history = Before.history
        /\ fired = <<>>

\* An invalid input was rejected by an instance that has a history and a
\* callback that fires on any transition.
C1_Witness ==
    /\ IsTransitionCall /\ ~WasValid
    /\ IsInvalidInput(result)
    /\ history /= <<>>
    /\ callback_registry.global_transition_callbacks /= <<>>

\* C2: the history is exactly the last min(M, N) records of the M
\* successful transitions since creation or the last reset (N the maximum
\* history size), oldest first.
C2_HistoryIsLastRecords ==
    /\ Len(history) = Min(Len(trace), max_history_size)
    /\ history = LastN(trace, Min(Len(trace), max_history_size))

\* More transitions succeeded than the history holds: records were evicted.
C2_Witness ==
    /\ max_history_size >= 1
    /\ Len(trace) > max_history_size
    /\ Len(history) = max_history_size
    /\ history[1] /= trace[1]

\* C3: on an instance created with maximum history size 0, a transition on
\* a valid input completes: it returns the new state, the current state
\* becomes that state, the callbacks are dispatched (the entry callbacks
\* when the state changes) and the history stays empty.
C3_ZeroHistoryTransitionCompletes ==
    (max_history_size = 0 /\ IsTransitionCall /\ WasValid /\ WasNext /= None) =>
        /\ result = Ok(WasNext[1])
        /\ current_state = WasNext[1]
        /\ history = <<>>
        /\ (Before.callback_registry.global_entry_callbacks /= <<>>
            /\ WasNext[1] /= Before.current_state)
               => "any_state_entry" \in ScopesFired

\* C4: a transition on a valid input I in state S whose next state is T
\* returns Ok(T), makes T the current state and appends the record (S, I).
C4_TransitionReturnsNextState ==
    (IsTransitionCall /\ WasValid /\ WasNext /= None) =>
        /\ result = Ok(WasNext[1])
        /\ current_state = WasNext[1]
        /\ max_history_size > 0 =>
               /\ history /= <<>>
               /\ history[Len(history)] = <<Before.current_state, CallInput>>

\* The last call was a successful transition that changed the state.
StateChanged ==
    /\ IsTransitionCall
    /\ result.kind = "Ok"
    /\ result.value /= Before.current_state

\* C5: a successful transition that changes the state invokes, in this
\* order: the any-exit callbacks, the exit callbacks of the old state, the
\* any-transition callbacks, the transition callbacks of (old state, input),
\* the any-entry callbacks, the entry callbacks of the new state.
C5_DispatchOrder ==
    StateChanged =>
        LET reg == Before.callback_registry
            from == Before.current_state
            into == result.value
        IN  Invoked =
                Named("any_state_exit", <<>>, reg.global_exit_callbacks, <<from>>)
                \o Named("state_exit", from,
                         Registered(reg.state_exit_callbacks, from), <<from>>)
                \o Named("any_transition", <<>>, reg.global_transition_callbacks,
                         <<from, CallInput, into>>)
                \o Named("transition", <<from, CallInput>>,
                         Registered(reg.transition_callbacks, <<from, CallInput>>),
                         <<from, CallInput, into>>)
                \o Named("any_state_entry", <<>>, reg.global_entry_callbacks, <<into>>)
                \o Named("state_entry", into,
                         Registered(reg.state_entry_callbacks, into), <<into>>)

\* One transition dispatched on all six surfaces.
C5_Witness ==
    /\ StateChanged
    /\ ScopesFired = {"any_state_exit", "state_exit", "any_transition",
                      "transition", "any_state_entry", "state_entry"}

\* The last call was a successful transition from a state to itself.
SelfLoop ==
    /\ IsTransitionCall
    /\ result.kind = "Ok"
    /\ result.value = Before.current_state

\* C6: a successful self-loop transition appends its record and invokes the
\* any-transition callbacks and the transition callbacks of (state, input),
\* and no entry and no exit callback.
C6_SelfLoopSuppression ==
    SelfLoop =>
        LET reg == Before.callback_registry
            st == Before.current_state
        IN  /\ history /= <<>>
            /\ history[Len(history)] = <<st, CallInput>>
            /\ Len(history) = Min(Len(Before.history) + 1, max_history_size)
            /\ Invoked =
                   Named("any_transition", <<>>, reg.global_transition_callbacks,
                         <<st, CallInput, st>>)
                   \o Named("transition", <<st, CallInput>>,
                            Registered(reg.transition_callbacks, <<st, CallInput>>),
                            <<st, CallInput, st>>)
            /\ ScopesFired \cap {"any_state_entry", "state_entry",
                                 "any_state_exit", "state_exit"} = {}

\* A self-loop ran with callbacks registered on the any-exit, exit, any-entry,
\* entry and any-transition surfaces, and only the last was invoked.
C6_Witness ==
    /\ SelfLoop
    /\ Before.callback_registry.global_exit_callbacks /= <<>>
    /\ Before.callback_registry.global_entry_callbacks /= <<>>
    /\ Before.current_state \in DOMAIN Before.callback_registry.state_exit_callbacks
    /\ Before.callback_registry.global_transition_callbacks /= <<>>
    /\ ScopesFired = {"any_transition"}

\* C7: when the input is valid for the current state but next_state gives
\* no state, transition returns NoTransition (naming the state and the
\* input), which is not InvalidInput; the instance is as before and no
\* callback is invoked.
C7_NoTransitionReported ==
    (IsTransitionCall /\ WasValid /\ WasNext = None) =>
        /\ IsNoTransition(result)
        /\ ~IsInvalidInput(result)
        /\ result.message[2] = Before.current_state
        /\ result.message[4] = CallInput
        /\ Self = Before
        /\ fired = <<>>

\* NoTransition was returned by an instance that has a history and callbacks.
C7_Witness ==
    /\ IsTransitionCall /\ WasValid /\ WasNext = None
    /\ IsNoTransition(result)
    /\ history /= <<>>
    /\ callback_count(callback_registry) > 0

\* C8: every transition call returns the new state, InvalidInput or
\* NoTransition, never a fault, and an error return leaves the instance as
\* if the call had not been made.
C8_TransitionAlwaysReturns ==
    IsTransitionCall =>
        /\ result.kind = "Ok" \/ IsInvalidInput(result) \/ IsNoTransition(result)
        /\ result.kind = "Err" => Self = Before

\* C9: reset sets the current state to the initial state and empties the
\* history, and leaves the registered callbacks and the maximum history
\* size as they were.
C9_ResetKeepsCallbacks ==
    call.op = "reset" =>
        /\ current_state = initial_state(SM)
        /\ history = <<>>
        /\ callback_registry = Before.callback_registry
        /\ callback_count(callback_registry) = callback_count(Before.callback_registry)
        /\ max_history_size = Before.max_history_size

\* A reset of an instance away from its initial state, with a history and a
\* registered callback.
C9_Witness ==
    /\ call.op = "reset"
    /\ Before.current_state /= initial_state(SM)
    /\ Before.history /= <<>>
    /\ callback_count(callback_registry) > 0

\* C10: the current state is always one of the declared states.
C10_CurrentStateDeclared == current_state \in StateOf(SM)

\* The instance has left its initial state by a transition.
C10_Witness ==
    /\ IsTransitionCall
    /\ result.kind = "Ok"
    /\ current_state /= initial_state(SM)
    /\ current_state = states(SM)[Len(states(SM))]
MaxSelfLoops == 3

WideInputs == <<"a", "c", "d", "e", "f", "_b">>
\* A table whose first state has `loops` self-loops on visible inputs and
\* one on a hidden input, and whose second state has two visible inputs
\* that lead to the first, declared in the opposite order of the inputs.
WideTable(loops) ==
    [states |-> <<"X", "Y">>,
     inputs |-> WideInputs,
     initial |-> "X",
     transitions |-> [k \in 1..loops |-> <<"X", WideInputs[k], "X">>]
                     \o << <<"X", "_b", "X">>, <<"Y", "c", "X">>,
                           <<"Y", "a", "X">>, <<"Y", "_b", "Y">> >>]

InitDoc ==
    \/ InitTable
    \/ \E loops \in 1..MaxSelfLoops :
           /\ table = WideTable(loops)
           /\ Creation("Table", "new", <<>>, new("Table"))
    \/ \E sm \in Machines :
           /\ table = NoTable
           /\ Creation(sm, "new", <<>>, new(sm))

GenerateMermaid ==
    \E string \in generate_mermaid(SM) : Query("generate_mermaid", <<>>, string)

GenerateTransitionTable ==
    Query("generate_transition_table", <<>>, generate_transition_table(SM))

NextDoc ==
    \/ GenerateMermaid
    \/ GenerateTransitionTable

SpecDoc == InitDoc /\ [][NextDoc]_vars

(***************************************************************************)
(* The search specification: the loops of reachable_states, has_path,      *)
(* shortest_path and is_strongly_connected, one iteration at a time, for   *)
(* the machines generated from a table of up to MaxSearchTransitions       *)
(* transitions.  A call runs on until it returns: its iterations are       *)
(* weakly fair.                                                            *)
(***************************************************************************)
MaxSearchTransitions == 2

InitSearch ==
    \E chosen \in SUBSET Range(TableTriples) :
        /\ Cardinality(chosen) <= MaxSearchTransitions
        /\ table = Table(chosen, FALSE)
        /\ Creation("Table", "new", <<>>, new("Table"))

Searching == search.op /= "none"

\* The call has not returned yet.
Running == [kind |-> "Running"]

\* What a query leaves alone while it runs.
Instance ==
    <<SM, table, current_state, history, max_history_size, callback_registry,
      call, result, fired, trace, twin, twin_result>>

\* A query is called and sets up its locals; `i` is the index of the state
\* is_strongly_connected is at, `expanded` lists the states whose valid
\* inputs the running loop has gone through.
Begin(op, args, i, local) ==
    /\ ~Searching
    /\ search' = [op |-> op, args |-> args, i |-> i, expanded |-> <<>>,
                  local |-> local]
    /\ call' = [op |-> op, args |-> args, before |-> Self]
    /\ result' = Running
    /\ fired' = <<>>
    /\ UNCHANGED <<SM, table, current_state, history, max_history_size,
                   callback_registry, trace, twin, twin_result>>

\* let mut reachable = HashSet::new(); let mut to_visit = vec![from.clone()];
ReachableLocals(from) == [reachable |-> {}, to_visit |-> <<from>>]

BeginReachableStates(from) ==
    Begin("reachable_states", <<from>>, 0, ReachableLocals(from))

BeginHasPath(from, to) ==
    Begin("has_path", <<from, to>>, 0, ReachableLocals(from))

BeginIsStronglyConnected ==
    /\ states(SM) /= <<>>
    /\ Begin("is_strongly_connected", <<>>, 1, ReachableLocals(states(SM)[1]))

BeginShortestPath(from, to) ==
    IF from = to
    THEN ~Searching /\ Query("shortest_path", <<from, to>>, Some(<<from>>))
    ELSE Begin("shortest_path", <<from, to>>, 0,
               [queue |-> <<from>>, visited |-> {from}, parent |-> EmptyMap])

InReachableLoop ==
    search.op \in {"reachable_states", "has_path", "is_strongly_connected"}

\* One iteration of `while let Some(current) = to_visit.pop()`.
ReachableIteration ==
    /\ InReachableLoop
    /\ search.local.to_visit /= <<>>
    /\ LET after == reachable_step(SM, search.local.reachable,
                                   search.local.to_visit)
       IN  search' = [search EXCEPT
                         !.local = [reachable |-> after.reachable,
                                    to_visit |-> after.to_visit],
                         !.expanded = @ \o after.expanded]
    /\ UNCHANGED Instance

ReachableStatesReturns ==
    /\ search.op = "reachable_states"
    /\ search.local.to_visit = <<>>
    /\ \E vec \in into_iter_collect(search.local.reachable) :
           Query("reachable_states", search.args, vec)

HasPathReturns ==
    /\ search.op = "has_path"
    /\ search.local.to_visit = <<>>
    /\ Query("has_path", search.args, search.args[2] \in search.local.reachable)

\* is_strongly_connected after one of its searches: it returns false, goes
\* on to has_path for the next state, or returns true after the last.
IsStronglyConnectedContinues ==
    /\ search.op = "is_strongly_connected"
    /\ search.local.to_visit = <<>>
    /\ LET failed == IF search.i = 1
                     THEN Cardinality(search.local.reachable) /= Len(states(SM))
                     ELSE states(SM)[1] \notin search.local.reachable
       IN  IF failed THEN Query("is_strongly_connected", <<>>, FALSE)
           ELSE IF search.i = Len(states(SM))
           THEN Query("is_strongly_connected", <<>>, TRUE)
           ELSE /\ search' = [search EXCEPT
                                 !.i = @ + 1,
                                 !.expanded = <<>>,
                                 !.local = ReachableLocals(states(SM)[search.i + 1])]
                /\ UNCHANGED Instance

\* One iteration of `while let Some(current) = queue.pop_front()`.
ShortestPathIteration ==
    /\ search.op = "shortest_path"
    /\ search.local.queue /= <<>>
    /\ LET current == Head(search.local.queue)
           out == bfs_for(search.args[2], current, NextStates(SM, current),
                          [search.local EXCEPT !.queue = Tail(@)])
       IN  IF out.returned
           THEN Query("shortest_path", search.args, Some(out.path))
           ELSE /\ search' = [search EXCEPT !.local = out.search,
                                            !.expanded = Append(@, current)]
                /\ UNCHANGED Instance

ShortestPathReturnsNone ==
    /\ search.op = "shortest_path"
    /\ search.local.queue = <<>>
    /\ Query("shortest_path", search.args, None)

\* The steps of a running query.
Runs ==
    \/ ReachableIteration
    \/ ReachableStatesReturns
    \/ HasPathReturns
    \/ IsStronglyConnectedContinues
    \/ ShortestPathIteration
    \/ ShortestPathReturnsNone

NextSearch ==
    \/ \E from \in StateOf(SM) : BeginReachableStates(from)
    \/ \E from, to \in StateOf(SM) : BeginHasPath(from, to)
    \/ BeginIsStronglyConnected
    \/ \E from, to \in StateOf(SM) : BeginShortestPath(from, to)
    \/ Runs

SpecSearch == InitSearch /\ [][NextSearch]_vars /\ WF_vars(Runs)

(***************************************************************************)
(* The read specification: the calls that take &self (valid_inputs,        *)
(* can_accept, callback_count) between transitions, resets, registrations  *)
(* on the six surfaces (the keyed ones for the first transition the        *)
(* machine can make) and clear_callbacks.                                  *)
(***************************************************************************)
MaxReadTransitions == 2
MaxReadCallbacks == 2

ValidInputs ==
    ~Faulted /\ Query("valid_inputs", <<>>, instance_valid_inputs(SM, Self))

CanAccept(input) ==
    ~Faulted /\ Query("can_accept", <<input>>, can_accept(SM, Self, input))

\* StateMachineInstance::callback_count
CallbackCount ==
    ~Faulted /\ Query("callback_count", <<>>, callback_count(callback_registry))

MayReadTransition == Len(trace) < MaxReadTransitions
MayReadRegister == callback_count(callback_registry) < MaxReadCallbacks

NextRead ==
    \/ \E input \in InputOf(SM) : MayReadTransition /\ Transition(input)
    \/ Reset
    \/ MayReadRegister /\ OnStateEntry(WatchedTo)
    \/ MayReadRegister /\ OnStateExit(WatchedFrom)
    \/ MayReadRegister /\ OnTransition(WatchedFrom, WatchedInput)
    \/ MayReadRegister /\ OnAnyStateEntry
    \/ MayReadRegister /\ OnAnyStateExit
    \/ MayReadRegister /\ OnAnyTransition
    \/ ClearCallbacks
    \/ ValidInputs
    \/ \E input \in InputOf(SM) : CanAccept(input)
    \/ CallbackCount

SpecRead == Init /\ [][NextRead]_vars

(***************************************************************************)
(* The transition graph of a Definition, stated without the searches.      *)
(***************************************************************************)
\* An edge: some valid input of `state` has `next` as its next state.
Edge(state, next) ==
    \E input \in Range(valid_inputs(SM, state)) :
        next_state(SM, state, input) = Some(next)

\* The states some sequence of at most n edges leads to from `from`.
RECURSIVE Within(_, _)
Within(from, n) ==
    IF n = 0 THEN {from}
    ELSE LET near == Within(from, n - 1)
         IN  near \cup {x \in StateOf(SM) : \E s \in near : Edge(s, x)}

\* The states some finite sequence of edges leads to: one without a
\* repeated state does, so fewer edges than there are states.
Reachable(from) == Within(from, Cardinality(StateOf(SM)))

NoDuplicates(vec) == \A i, j \in 1..Len(vec) : vec[i] = vec[j] => i = j

IsQueryCall(op) == call.op = op
QueryResult == result.value

\* C12: reachable_states(S) contains S, contains a state exactly when a
\* finite (possibly empty) sequence of edges leads to it from S, and lists
\* each state once.
C12_ReachableStates ==
    IsQueryCall("reachable_states") =>
        /\ Contains(QueryResult, call.args[1])
        /\ Range(QueryResult) = Reachable(call.args[1])
        /\ NoDuplicates(QueryResult)

\* A call that returned the three states of a table, a state two edges
\* away first and the state asked about last.
C12_Witness ==
    /\ SM = "Table"
    /\ IsQueryCall("reachable_states")
    /\ Len(QueryResult) = 3
    /\ QueryResult[3] = call.args[1]
    /\ ~Edge(call.args[1], QueryResult[1])

\* The least number of edges that lead from `from` to a state reachable
\* from it.
Distance(from, to) ==
    CHOOSE n \in 0..Cardinality(StateOf(SM)) :
        /\ to \in Within(from, n)
        /\ \A m \in 0..(n - 1) : to \notin Within(from, m)

\* A sequence of states joined by edges.
IsPath(path) == \A i \in 1..(Len(path) - 1) : Edge(path[i], path[i + 1])

\* C13: a sequence returned by shortest_path(A, B) leads from A to B along
\* edges and has as many edges as the least number that lead from A to B;
\* for the order machine shortest_path(Created, Delivered) is
\* [Created, Paid, Shipped, Delivered].
C13_ShortestPathIsShortest ==
    IsQueryCall("shortest_path") =>
        /\ QueryResult /= None =>
               LET path == QueryResult[1]
               IN  /\ path[1] = call.args[1]
                   /\ path[Len(path)] = call.args[2]
                   /\ IsPath(path)
                   /\ call.args[2] \in Reachable(call.args[1])
                   /\ Len(path) - 1 = Distance(call.args[1], call.args[2])
        /\ (SM = "OrderStateMachine" /\ call.args = <<"Created", "Delivered">>) =>
               QueryResult = Some(<<"Created", "Paid", "Shipped", "Delivered">>)

\* A path of one edge was returned where the first valid input of the
\* start state leads to another state, from which an edge leads to the end.
C13_Witness ==
    /\ SM = "Table"
    /\ IsQueryCall("shortest_path")
    /\ QueryResult /= None
    /\ Len(QueryResult[1]) = 2
    /\ LET first == NextStates(SM, call.args[1])[1]
       IN  first \notin {call.args[1], call.args[2]} /\ Edge(first, call.args[2])

\* C14: shortest_path(from, from) returns the one-element sequence [from]
\* for every state, with or without a self-loop or any outgoing transition.
C14_ShortestPathToItself ==
    (IsQueryCall("shortest_path") /\ call.args[1] = call.args[2]) =>
        QueryResult = Some(<<call.args[1]>>)

\* The call was made for a state of a table that has a self-loop and an
\* edge to another state that leads back to it.
C14_Witness ==
    /\ SM = "Table"
    /\ IsQueryCall("shortest_path")
    /\ call.args[1] = call.args[2]
    /\ Edge(call.args[1], call.args[1])
    /\ \E other \in StateOf(SM) \ {call.args[1]} :
           Edge(call.args[1], other) /\ Edge(other, call.args[1])

\* C15: has_path(from, to) is true exactly when `to` is in the sequence
\* reachable_states(from) returns, whichever order that has; has_path(s, s)
\* is true for every state, terminal ones included.
C15_HasPathIsReachability ==
    IsQueryCall("has_path") =>
        /\ \A vec \in reachable_states(SM, call.args[1]) :
               QueryResult = Contains(vec, call.args[2])
        /\ QueryResult = (call.args[2] \in Reachable(call.args[1]))
        /\ call.args[1] = call.args[2] => QueryResult

\* has_path(s, s) was asked for a state without valid input, in a machine
\* where another state has some.
C15_Witness ==
    /\ IsQueryCall("has_path")
    /\ call.args[1] = call.args[2]
    /\ valid_inputs(SM, call.args[1]) = <<>>
    /\ \E s \in StateOf(SM) : valid_inputs(SM, s) /= <<>>
    /\ QueryResult

\* C16: states_leading_to(T) contains a declared state S exactly when some
\* valid input of S has T as next state (S = T included when T has a
\* self-loop), and contains it once however many inputs of S lead to T.
C16_StatesLeadingTo ==
    IsQueryCall("states_leading_to") =>
        /\ \A S \in StateOf(SM) :
               Contains(QueryResult, S) <=> Edge(S, call.args[1])
        /\ Range(QueryResult) \subseteq StateOf(SM)
        /\ NoDuplicates(QueryResult)

\* The target has a self-loop and another state has two valid inputs that
\* lead to the target.
C16_Witness ==
    /\ SM = "Table"
    /\ IsQueryCall("states_leading_to")
    /\ Edge(call.args[1], call.args[1])
    /\ \E S \in StateOf(SM) \ {call.args[1]} :
           /\ Contains(QueryResult, S)
           /\ Cardinality({k \in DOMAIN NextStates(SM, S) :
                               NextStates(SM, S)[k] = call.args[1]}) = 2

\* C17: terminal_states() returns exactly the declared states whose list of
\* valid inputs is empty; a state whose only transitions are self-loops is
\* not among them.
C17_TerminalStates ==
    IsQueryCall("terminal_states") =>
        /\ \A S \in StateOf(SM) :
               Contains(QueryResult, S) <=> valid_inputs(SM, S) = <<>>
        /\ Range(QueryResult) \subseteq StateOf(SM)
        /\ \A S \in StateOf(SM) :
               (Edge(S, S) /\ \A X \in StateOf(SM) \ {S} : ~Edge(S, X)) =>
                   ~Contains(QueryResult, S)

\* The machine has a state whose only transitions are self-loops, a state
\* without valid input and a state with a transition to another state.
C17_Witness ==
    /\ IsQueryCall("terminal_states")
    /\ QueryResult /= <<>>
    /\ \E S \in StateOf(SM) :
           Edge(S, S) /\ \A X \in StateOf(SM) \ {S} : ~Edge(S, X)
    /\ \E S \in StateOf(SM) : \E X \in StateOf(SM) \ {S} : Edge(S, X)

\* C18: is_strongly_connected() is true exactly when no state is declared,
\* or every declared state is reachable from the first declared state and
\* the first declared state is reachable from every other one.
C18_StronglyConnected ==
    IsQueryCall("is_strongly_connected") =>
        QueryResult =
            \/ states(SM) = <<>>
            \/ /\ \A S \in StateOf(SM) : S \in Reachable(states(SM)[1])
               /\ \A S \in StateOf(SM) \ {states(SM)[1]} :
                      states(SM)[1] \in Reachable(S)

\* Every state is reachable from the first, the first is not reachable
\* from one of them, and the call returned false.
C18_Witness ==
    /\ IsQueryCall("is_strongly_connected")
    /\ ~QueryResult
    /\ \A S \in StateOf(SM) : S \in Reachable(states(SM)[1])

\* C19: valid_inputs() is the Definition's list of valid inputs for the
\* current state, can_accept(I) is true exactly when I is in that list, and
\* neither call changes the current state, the history or the callbacks.
C19_ReadOnlyQueries ==
    /\ IsQueryCall("valid_inputs") =>
           /\ QueryResult = valid_inputs(SM, current_state)
           /\ Self = Before
    /\ IsQueryCall("can_accept") =>
           /\ QueryResult = Contains(instance_valid_inputs(SM, Self), CallInput)
           /\ Self = Before

\* valid_inputs() was called after a transition to a state whose valid
\* inputs are not those of the initial state, with a callback registered.
C19_Witness ==
    /\ IsQueryCall("valid_inputs")
    /\ history /= <<>>
    /\ QueryResult /= valid_inputs(SM, initial_state(SM))
    /\ callback_count(callback_registry) > 0

\* The callbacks of the six surfaces, each named by its surface, its key
\* and its place.
AllRegistered(reg) ==
    {<<"state_entry", k, i>> : k \in DOMAIN reg.state_entry_callbacks,
                               i \in 1..MaxReadCallbacks + 1}
    \cup {<<"state_exit", k, i>> : k \in DOMAIN reg.state_exit_callbacks,
                                   i \in 1..MaxReadCallbacks + 1}
    \cup {<<"transition", k, i>> : k \in DOMAIN reg.transition_callbacks,
                                   i \in 1..MaxReadCallbacks + 1}
    \cup {<<"global_entry", <<>>, i>> : i \in 1..MaxReadCallbacks + 1}
    \cup {<<"global_exit", <<>>, i>> : i \in 1..MaxReadCallbacks + 1}
    \cup {<<"global_transition", <<>>, i>> : i \in 1..MaxReadCallbacks + 1}

Surface(reg, name) ==
    IF name[1] = "state_entry" THEN reg.state_entry_callbacks[name[2]]
    ELSE IF name[1] = "state_exit" THEN reg.state_exit_callbacks[name[2]]
    ELSE IF name[1] = "transition" THEN reg.transition_callbacks[name[2]]
    ELSE IF name[1] = "global_entry" THEN reg.global_entry_callbacks
    ELSE IF name[1] = "global_exit" THEN reg.global_exit_callbacks
    ELSE reg.global_transition_callbacks

TotalRegistered(reg) ==
    Cardinality({name \in AllRegistered(reg) :
                    name[3] <= Len(Surface(reg, name))})

RegistrationCalls ==
    {"on_state_entry", "on_state_exit", "on_transition",
     "on_any_state_entry", "on_any_state_exit", "on_any_transition"}

\* C20: callback_count() is the number of callbacks registered on the six
\* surfaces together: a registration raises it by one (also a second one
\* for the same key), transition and reset leave it, clear sets it to 0
\* and empties the six surfaces.
C20_CallbackCount ==
    /\ callback_count(callback_registry) = TotalRegistered(callback_registry)
    /\ IsQueryCall("callback_count") =>
           QueryResult = TotalRegistered(callback_registry)
    /\ call.op \in RegistrationCalls =>
           callback_count(callback_registry)
               = callback_count(Before.callback_registry) + 1
    /\ call.op \in {"transition", "reset"} =>
           callback_count(callback_registry)
               = callback_count(Before.callback_registry)
    /\ call.op = "clear_callbacks" =>
           /\ callback_count(callback_registry) = 0
           /\ callback_registry = NewRegistry

\* callback_count() returned 2 with two callbacks registered for one state.
C20_Witness ==
    /\ IsQueryCall("callback_count")
    /\ QueryResult = 2
    /\ \E k \in DOMAIN callback_registry.state_entry_callbacks :
           Len(callback_registry.state_entry_callbacks[k]) = 2

\* The callbacks registered on a surface, under a key for a keyed one.
RegisteredOn(reg, scope, key) ==
    IF scope = "state_entry" THEN Registered(reg.state_entry_callbacks, key)
    ELSE IF scope = "state_exit" THEN Registered(reg.state_exit_callbacks, key)
    ELSE IF scope = "transition" THEN Registered(reg.transition_callbacks, key)
    ELSE IF scope = "any_state_entry" THEN reg.global_entry_callbacks
    ELSE IF scope = "any_state_exit" THEN reg.global_exit_callbacks
    ELSE reg.global_transition_callbacks

\* The callbacks of one surface and key that the last call invoked, in order.
FiredOf(scope, key) ==
    LET sub == SelectSeq(fired, LAMBDA f : f.scope = scope /\ f.key = key)
    IN  [k \in 1..Len(sub) |-> sub[k].callback]

\* C21: the callbacks a transition invokes from one surface (and key) are
\* all the callbacks registered there, each once, in the order of their
\* registration (a callback is named by its place in that order).
C21_RegistrationOrder ==
    (IsTransitionCall /\ result.kind = "Ok") =>
        \A i \in 1..Len(fired) :
            LET registered ==
                    RegisteredOn(Before.callback_registry,
                                 fired[i].scope, fired[i].key)
            IN  /\ FiredOf(fired[i].scope, fired[i].key) = registered
                /\ registered = [k \in 1..Len(registered) |-> k]

\* A transition invoked two callbacks of one keyed surface.
C21_Witness ==
    /\ IsTransitionCall
    /\ result.kind = "Ok"
    /\ \E i \in 1..Len(fired) :
           /\ fired[i].scope \in {"state_entry", "state_exit", "transition"}
           /\ Len(FiredOf(fired[i].scope, fired[i].key)) = 2

\* An input whose display name begins with an underscore.
IsHidden(input) == Len(input_name(SM, input)) > 0 /\ Head(input_name(SM, input)) = "_"

\* The Definition was declared with a transition from `state` on `input`.
DeclaredFor(state, input) ==
    /\ IsGenerated(SM)
    /\ \E i \in DOMAIN Declared(SM).transitions :
           /\ Declared(SM).transitions[i][1] = state
           /\ Declared(SM).transitions[i][2] = input

\* An edge made by a hidden input.
HiddenEdge(state, next) ==
    \E input \in InputOf(SM) :
        /\ IsHidden(input)
        /\ DeclaredFor(state, input)
        /\ next_state(SM, state, input) = Some(next)

\* C22: a hidden input is in valid_inputs() for the states that declare it,
\* transition() on it succeeds and appends its record to the history, and
\* reachable_states, states_leading_to and shortest_path follow its edges.
C22_HiddenInputsFunctional ==
    /\ IsQueryCall("valid_inputs") =>
           \A input \in InputOf(SM) :
               (IsHidden(input) /\ DeclaredFor(current_state, input)) =>
                   Contains(QueryResult, input)
    /\ (IsTransitionCall /\ IsHidden(CallInput)
           /\ DeclaredFor(Before.current_state, CallInput)) =>
           /\ result = Ok(WasNext[1])
           /\ current_state = WasNext[1]
           /\ Len(history) = Min(Len(Before.history) + 1, max_history_size)
           /\ history /= <<>> =>
                  history[Len(history)] = <<Before.current_state, CallInput>>
    /\ IsQueryCall("reachable_states") =>
           \A S \in Range(QueryResult), X \in StateOf(SM) :
               HiddenEdge(S, X) => Contains(QueryResult, X)
    /\ IsQueryCall("states_leading_to") =>
           \A S \in StateOf(SM) :
               HiddenEdge(S, call.args[1]) => Contains(QueryResult, S)
    /\ (IsQueryCall("shortest_path") /\ call.args[1] /= call.args[2]
           /\ HiddenEdge(call.args[1], call.args[2])) =>
           QueryResult = Some(<<call.args[1], call.args[2]>>)

\* The diagram has an edge from `from` to `to` whose label holds `name`.
HasEdgeLabel(doc, from, to, name) ==
    \E p \in 1..(Len(doc) - 5) :
        /\ SubSeq(doc, p, p + 4) = <<"    ", from, " --> ", to, " : ">>
        /\ \E q \in (p + 5)..Len(doc) :
               /\ doc[q] = name
               /\ \A r \in (p + 5)..q : doc[r] /= "\n"

\* The table has the row | from | name | to |.
HasRow(doc, from, name, to) ==
    \E p \in 1..(Len(doc) - 6) :
        SubSeq(doc, p, p + 6) = <<"| ", from, " | ", name, " | ", to, " |\n">>

\* C23: the diagram and the transition table hold the name of no hidden
\* input, and hold an edge label, respectively a row, for every valid input
\* of a state that is not hidden and has a next state.
C23_RendererSkipsHidden ==
    (IsQueryCall("generate_mermaid") \/ IsQueryCall("generate_transition_table")) =>
        /\ \A input \in InputOf(SM) :
               IsHidden(input) => ~Contains(QueryResult, input_name(SM, input))
        /\ \A S \in StateOf(SM) :
               \A input \in Range(valid_inputs(SM, S)) :
                   (~IsHidden(input) /\ next_state(SM, S, input) /= None) =>
                       LET X == next_state(SM, S, input)[1]
                       IN  IF IsQueryCall("generate_mermaid")
                           THEN HasEdgeLabel(QueryResult, state_name(SM, S),
                                             state_name(SM, X),
                                             input_name(SM, input))
                           ELSE HasRow(QueryResult, state_name(SM, S),
                                       input_name(SM, input), state_name(SM, X))

\* A diagram was rendered for a machine with a hidden edge between two
\* states and a visible edge.
C23_Witness ==
    /\ IsQueryCall("generate_mermaid")
    /\ \E S \in StateOf(SM) : \E X \in StateOf(SM) \ {S} : HiddenEdge(S, X)
    /\ \E S, X \in StateOf(SM) :
           HasEdgeLabel(QueryResult, state_name(SM, S), state_name(SM, X), "a")

\* The instance has just been created: no call was made on it yet.
IsNew == call.op \in {"new", "with_max_history"}

\* C24: a newly created instance is in the initial state of its Definition,
\* has an empty history and no callback; its max_history_size is 512 after
\* new() and n after with_max_history(n).
C24_NewInstance ==
    IsNew =>
        /\ current_state = initial_state(SM)
        /\ history = <<>>
        /\ callback_registry = NewRegistry
        /\ callback_count(callback_registry) = 0
        /\ max_history_size = IF call.op = "new" THEN 512 ELSE call.args[1]

\* An instance created by with_max_history(2).
C24_Witness ==
    /\ call.op = "with_max_history"
    /\ call.args = <<2>>
    /\ max_history_size = 2

\* C25: reachable_states, has_path, shortest_path and is_strongly_connected
\* return on every Definition, with cycles and self-loops too: a running
\* query returns, and no loop goes through the valid inputs of a state twice.
C25_QueriesTerminate ==
    /\ [](Searching => NoDuplicates(search.expanded))
    /\ Searching ~> ~Searching

\* The loop of reachable_states is about to meet, on a cycle, a state it has
\* reached already.
C25_Witness ==
    /\ InReachableLoop
    /\ search.local.to_visit /= <<>>
    /\ search.local.to_visit[Len(search.local.to_visit)] \in search.local.reachable
    /\ Len(search.expanded) >= 2


\* The arguments the last call invoked one callback of a surface and key with.
ArgsOf(scope, key, callback) ==
    {fired[i].args : i \in {n \in 1..Len(fired) :
        IF fired[n].scope = scope
        THEN fired[n].key = key /\ fired[n].callback = callback
        ELSE FALSE}}

\* Every callback registered on a surface under a key was invoked with `args`
\* if `selected`, and was not invoked otherwise.
Selects(scope, key, selected, args) ==
    LET registered == RegisteredOn(Before.callback_registry, scope, key)
    IN  \A k \in 1..Len(registered) :
            ArgsOf(scope, key, registered[k]) = IF selected THEN {args} ELSE {}

\* C26: a successful transition from O on I to T invokes an entry callback
\* registered for S iff S = T and O /= T, with T; an exit callback registered
\* for S iff S = O and O /= T, with O; a transition callback registered for
\* (S, J) iff S = O and J = I, with (O, I, T); and every any-transition
\* callback with (O, I, T).
C26_CallbackSelection ==
    (IsTransitionCall /\ result.kind = "Ok") =>
        LET O == Before.current_state
            I == CallInput
            T == result.value
        IN  /\ \A S \in StateOf(SM) :
                   /\ Selects("state_entry", S, S = T /\ O /= T, <<T>>)
                   /\ Selects("state_exit", S, S = O /\ O /= T, <<O>>)
                   /\ \A J \in InputOf(SM) :
                          Selects("transition", <<S, J>>, S = O /\ J = I,
                                  <<O, I, T>>)
            /\ Selects("any_transition", <<>>, TRUE, <<O, I, T>>)

\* A successful transition to another state passed over a callback that is
\* registered for the state left and another input, or for the state left
\* as an entry callback, or for the state reached as an exit callback.
C26_Witness ==
    /\ IsTransitionCall
    /\ result.kind = "Ok"
    /\ Before.current_state /= result.value
    /\ fired = <<>>
    /\ LET reg == Before.callback_registry
       IN  IF \E J \in InputOf(SM) \ {CallInput} :
                  <<Before.current_state, J>> \in DOMAIN reg.transition_callbacks
           THEN TRUE
           ELSE IF Before.current_state \in DOMAIN reg.state_entry_callbacks
           THEN TRUE
           ELSE result.value \in DOMAIN reg.state_exit_callbacks


\* The surfaces dispatched before and after the instance is updated.
LeavingScopes == {"any_state_exit", "state_exit", "any_transition", "transition"}
EnteringScopes == {"any_state_entry", "state_entry"}

\* C27: in a successful transition the exit and the transition callbacks
\* run while current_state is the old state and the history is as it was
\* before the call; the entry callbacks run when the record is appended (the
\* oldest one evicted if the history was over capacity) and current_state is
\* the new state.
C27_InstanceSeenByCallbacks ==
    (IsTransitionCall /\ result.kind = "Ok") =>
        LET pushed == Append(Before.history, <<Before.current_state, CallInput>>)
            kept == IF Len(pushed) > Before.max_history_size
                    THEN Tail(pushed) ELSE pushed
        IN  \A i \in 1..Len(fired) :
                /\ fired[i].scope \in LeavingScopes =>
                       /\ fired[i].current_state = Before.current_state
                       /\ fired[i].history = Before.history
                /\ fired[i].scope \in EnteringScopes =>
                       /\ fired[i].current_state = result.value
                       /\ fired[i].history = kept
                       /\ fired[i].history = history

\* A transition on an instance whose history was full invoked a callback
\* before and a callback after the update.
C27_Witness ==
    /\ StateChanged
    /\ Len(Before.history) = Before.max_history_size
    /\ \E i \in 1..Len(fired) : fired[i].scope \in LeavingScopes
    /\ \E i \in 1..Len(fired) : fired[i].scope \in EnteringScopes


(***************************************************************************)
(* The definition specification: the two functions of the StateMachine     *)
(* trait that a declaration's transitions generate, called on the machines *)
(* of the query specification.                                             *)
(***************************************************************************)
\* SM::valid_inputs(&state)
ValidInputsOf(state) ==
    Query("SM::valid_inputs", <<state>>, valid_inputs(SM, state))

\* SM::next_state(&state, &input)
NextStateOf(state, input) ==
    Query("SM::next_state", <<state, input>>, next_state(SM, state, input))

NextDefinition ==
    \/ \E state \in StateOf(SM) : ValidInputsOf(state)
    \/ \E state \in StateOf(SM), input \in InputOf(SM) : NextStateOf(state, input)

SpecDefinition == InitQuery /\ [][NextDefinition]_vars

\* The targets the declaration lists for (state, input), in declaration order.
TargetsDeclared(state, input) ==
    LET arms == SelectSeq(Declared(SM).transitions,
                          LAMBDA t : t[1] = state /\ t[2] = input)
    IN  [i \in 1..Len(arms) |-> arms[i][3]]

\* The last call asked next_state for a pair that the declaration lists more
\* than once, with different targets.
AskedDuplicatedPair ==
    /\ IsQueryCall("SM::next_state")
    /\ IsGenerated(SM)
    /\ Cardinality(Range(TargetsDeclared(call.args[1], call.args[2]))) > 1

\* C28 as stated: for a pair declared more than once with different targets
\* next_state returns the target of the last-declared entry.
C28_LastDeclaredWins ==
    AskedDuplicatedPair =>
        LET targets == TargetsDeclared(call.args[1], call.args[2])
        IN  QueryResult = Some(targets[Len(targets)])

\* C28: a declaration that lists a (state, input) pair more than once with
\* different targets is a Definition; valid_inputs lists the input once per
\* entry and next_state returns the target of the first-declared entry.
C28_FirstDeclaredWins ==
    /\ AskedDuplicatedPair =>
           QueryResult = Some(TargetsDeclared(call.args[1], call.args[2])[1])
    /\ (IsQueryCall("SM::valid_inputs") /\ IsGenerated(SM)) =>
           \A input \in InputOf(SM) :
               Len(SelectSeq(QueryResult, LAMBDA i : i = input))
                   = Len(TargetsDeclared(call.args[1], input))

\* next_state was asked for a pair declared three times, the first and the
\* last entry with different targets.
C28_Witness ==
    /\ AskedDuplicatedPair
    /\ LET targets == TargetsDeclared(call.args[1], call.args[2])
       IN  Len(targets) = 3 /\ targets[1] /= targets[3]


\* C29: is_strongly_connected() is true exactly when has_path(a, b) is true
\* for every ordered pair (a, b) of declared states.
C29_StronglyConnectedIsAllPairs ==
    IsQueryCall("is_strongly_connected") =>
        QueryResult = \A a \in StateOf(SM), b \in StateOf(SM) : has_path(SM, a, b)

\* is_strongly_connected() returned true for a machine of three or more
\* states, two of which are not the first declared one.
C29_Witness ==
    /\ IsQueryCall("is_strongly_connected")
    /\ QueryResult
    /\ \E a \in StateOf(SM), b \in StateOf(SM) :
           /\ a /= b
           /\ states(SM)[1] \notin {a, b}
           /\ has_path(SM, a, b)


\* C30: a non-empty history is a connected chain that ends at the current
\* state: next_state of each record is the state of the record after it and
\* next_state of the newest record is current_state.  It is an invariant, so
\* failed transitions and reset() keep it.
C30_HistoryIsChain ==
    history /= <<>> =>
        /\ \A i \in 1..(Len(history) - 1) :
               next_state(SM, history[i][1], history[i][2])
                   = Some(history[i + 1][1])
        /\ next_state(SM, history[Len(history)][1], history[Len(history)][2])
               = Some(current_state)

\* A transition failed on an instance that holds two or more records.
C30_Witness ==
    /\ IsTransitionCall
    /\ result.kind = "Err"
    /\ Len(history) >= 2


\* C31: whatever transition() and reset() calls were made on an instance,
\* its current state is in reachable_states(initial_state()).
C31_CurrentStateReachable ==
    \A vec \in reachable_states(SM, initial_state(SM)) :
        Contains(vec, current_state)

\* A transition failed in a state that is not the initial one and that the
\* initial state's second valid input leads to.
C31_Witness ==
    /\ IsTransitionCall
    /\ result.kind = "Err"
    /\ current_state /= initial_state(SM)
    /\ Len(NextStates(SM, initial_state(SM))) >= 2
    /\ current_state = NextStates(SM, initial_state(SM))[2]


\* The last call dispatched on one of the surfaces: the any-callbacks, which
\* every dispatch invokes, show it.
Dispatched(scope) == \E i \in 1..Len(fired) : fired[i].scope = scope

\* C32: in a transition on a valid input that has a next state, for every
\* maximum history size, the entry callbacks are dispatched iff the exit
\* callbacks are (seen on an instance that has an any-entry and an any-exit
\* callback), and both iff the state changes.
C32_EntryAgreesWithExit ==
    (/\ IsTransitionCall
     /\ WasValid
     /\ WasNext /= None
     /\ Before.callback_registry.global_entry_callbacks /= <<>>
     /\ Before.callback_registry.global_exit_callbacks /= <<>>) =>
        /\ Dispatched("any_state_entry") <=> Dispatched("any_state_exit")
        /\ Dispatched("any_state_exit") <=> WasNext[1] /= Before.current_state


\* C33: a sequence returned by shortest_path(from, to) starts with from, ends
\* with to, goes from each of its states to the next by some valid input of
\* that state, and holds no state twice.
C33_ShortestPathIsSimplePath ==
    (IsQueryCall("shortest_path") /\ QueryResult /= None) =>
        LET path == QueryResult[1]
        IN  /\ Len(path) >= 1
            /\ path[1] = call.args[1]
            /\ path[Len(path)] = call.args[2]
            /\ \A k \in 1..(Len(path) - 1) :
                   \E i \in 1..Len(valid_inputs(SM, path[k])) :
                       next_state(SM, path[k], valid_inputs(SM, path[k])[i])
                           = Some(path[k + 1])
            /\ NoDuplicates(path)

\* A sequence of three states was returned for a table in which the end
\* state leads back to the start state.
C33_Witness ==
    /\ SM = "Table"
    /\ IsQueryCall("shortest_path")
    /\ QueryResult /= None
    /\ Len(QueryResult[1]) = 3
    /\ Edge(call.args[2], call.args[1])


\* C34: shortest_path(from, to) returns a sequence exactly when
\* has_path(from, to) is true, and no path exactly when `to` is not in
\* reachable_states(from): the two traversals agree on reachability.
C34_TraversalsAgree ==
    IsQueryCall("shortest_path") =>
        /\ (QueryResult /= None) = has_path(SM, call.args[1], call.args[2])
        /\ (QueryResult = None) =
               \A vec \in reachable_states(SM, call.args[1]) :
                   ~Contains(vec, call.args[2])

\* No path was returned from a state that has an edge to another state and
\* that the asked state leads to.
C34_Witness ==
    /\ IsQueryCall("shortest_path")
    /\ QueryResult = None
    /\ Edge(call.args[2], call.args[1])
    /\ \E other \in StateOf(SM) \ {call.args[1]} : Edge(call.args[1], other)


\* In a generated Definition an input is valid for a state exactly when
\* next_state yields a state for the pair.
ValidIffNextState ==
    \A S \in StateOf(SM), I \in InputOf(SM) :
        Contains(valid_inputs(SM, S), I) <=> next_state(SM, S, I) /= None

\* C35: for a Definition generated from a declared transition table an input
\* is in valid_inputs(S) iff next_state(S, I) yields a state, and on an
\* instance of it a transition() call never returns NoTransition: it
\* succeeds or it fails with InvalidInput.
C35_GeneratedHasNoGap ==
    IsGenerated(SM) =>
        /\ ValidIffNextState
        /\ IsTransitionCall =>
               /\ ~IsNoTransition(result)
               /\ IF result.kind = "Ok" THEN TRUE ELSE IsInvalidInput(result)


(***************************************************************************)
(* The run specification: transitions and resets on an instance of a       *)
(* machine of the query specification; tables and the order machine have   *)
(* terminal states.                                                        *)
(***************************************************************************)
NextRun ==
    \/ \E input \in InputOf(SM) : MayReadTransition /\ Transition(input)
    \/ Reset

SpecRun == InitQuery /\ [][NextRun]_vars

IsTerminal(state) == Contains(terminal_states(SM), state)

\* C36: a transition() call on an instance whose current state is in
\* terminal_states() fails with InvalidInput, whatever the input, and leaves
\* the state (and the history) as it was; only reset() takes the instance
\* out of a terminal state; reachable_states(T) is [T] for a terminal T.
C36_TerminalAbsorbing ==
    /\ [](/\ (IsTransitionCall /\ IsTerminal(Before.current_state)) =>
                 /\ IsInvalidInput(result)
                 /\ current_state = Before.current_state
                 /\ history = Before.history
          /\ \A T \in StateOf(SM) :
                 IsTerminal(T) => reachable_states(SM, T) = {<<T>>})
    /\ [][(IsTerminal(current_state) /\ current_state' /= current_state)
              => call'.op = "reset"]_vars

\* A transition was refused in a terminal state that a transition led to.
C36_Witness ==
    /\ IsTransitionCall
    /\ IsTerminal(Before.current_state)
    /\ result.kind = "Err"
    /\ history /= <<>>


RegistrationOps ==
    {"on_state_entry", "on_state_exit", "on_transition",
     "on_any_state_entry", "on_any_state_exit", "on_any_transition"}

\* C38: a registration on any of the six surfaces and clear_callbacks()
\* leave current_state, history and max_history_size as they were;
\* clear_callbacks() leaves no callback registered and a transition invokes
\* only callbacks that are registered when it is called, so none from
\* before the clear; the transition that follows a clear_callbacks() invokes
\* nothing and updates the state and the history as usual.
C38_RegistrationLeavesState ==
    /\ [](/\ call.op \in RegistrationOps \cup {"clear_callbacks"} =>
                 /\ current_state = Before.current_state
                 /\ history = Before.history
                 /\ max_history_size = Before.max_history_size
          /\ call.op = "clear_callbacks" => callback_registry = NewRegistry
          /\ \A i \in 1..Len(fired) :
                 fired[i].callback \in
                     Range(RegisteredOn(Before.callback_registry,
                                        fired[i].scope, fired[i].key)))
    /\ [][(call.op = "clear_callbacks" /\ call'.op = "transition") =>
              /\ fired' = <<>>
              /\ result'.kind = "Ok" =>
                     LET pushed == Append(history, <<current_state, call'.args[1]>>)
                     IN  /\ Some(current_state')
                             = next_state(SM, current_state, call'.args[1])
                         /\ history' = IF Len(pushed) > max_history_size
                                       THEN Tail(pushed) ELSE pushed
              /\ result'.kind = "Err" =>
                     current_state' = current_state /\ history' = history]_vars

\* clear_callbacks() emptied a registry of two callbacks on an instance that
\* has made a transition.
C38_Witness ==
    /\ call.op = "clear_callbacks"
    /\ callback_count(Before.callback_registry) >= 2
    /\ history /= <<>>
    /\ current_state /= initial_state(SM)


\* The places of the diagram where an edge line from `from` to `to` begins.
EdgesAt(doc, from, to) ==
    {p \in 1..(Len(doc) - 5) :
        SubSeq(doc, p, p + 4) = <<"    ", from, " --> ", to, " : ">>}

\* The label of the edge line that begins at p: what stands before "\n".
LabelAt(doc, p) ==
    LET end == CHOOSE q \in (p + 5)..Len(doc) :
                   /\ doc[q] = "\n"
                   /\ \A r \in (p + 5)..(q - 1) : doc[r] /= "\n"
    IN  SubSeq(doc, p + 5, end - 1)

\* The labels of the edge lines from `from` to `to`, from top to bottom.
RECURSIVE LabelsFrom(_, _, _, _)
LabelsFrom(doc, from, to, p) ==
    IF p > Len(doc) - 5 THEN <<>>
    ELSE IF p \in EdgesAt(doc, from, to)
    THEN <<LabelAt(doc, p)>> \o LabelsFrom(doc, from, to, p + 1)
    ELSE LabelsFrom(doc, from, to, p + 1)

\* The names joined by " / ".
Merged(names) ==
    [k \in 1..(2 * Len(names) - 1) |->
        IF k % 2 = 1 THEN names[(k + 1) \div 2] ELSE " / "]

\* The names of the non-hidden inputs that lead from `from` to `to`, as
\* valid_inputs lists them: in declaration order.
VisibleInputs(from, to) ==
    LET leading == SelectSeq(valid_inputs(SM, from),
                             LAMBDA input : /\ ~IsHidden(input)
                                            /\ next_state(SM, from, input) = Some(to))
    IN  [k \in 1..Len(leading) |-> input_name(SM, leading[k])]

============================================================================
